---- MODULE Spec2Model ----
(***************************************************************************)
(* Content access control of the media-catalog backend: the Pledge class   *)
(* and fetchPledge (src/src/pledge.js 9-118), the access predicates,       *)
(* filterEntry and filterData and the patron-pledge route of the request   *)
(* handlers (src/src/pledge.js 239-364, 1049-1065).                        *)
(*                                                                         *)
(* JavaScript values are encoded so that TLC can compare them:             *)
(*   - scalars (booleans, undefined, null, ids, urls) are strings;         *)
(*   - objects are records; an object slot that holds undefined or null    *)
(*     holds the record ObjUndefined or ObjNull; a thrown exception is the *)
(*     record Thrown(name);                                                *)
(*   - an array is the record Arr(s) of a sequence s;                      *)
(*   - an absent key and a key holding undefined are the same value, as    *)
(*     they are for lodash get/has on a path and for JSON output.          *)
(***************************************************************************)
EXTENDS Integers, Sequences, FiniteSets, TLC

VARIABLES pc, pledge, entry, podcasts, contentfulData,
          access, filtered, response, body,
          refiltered, kind, episode, itemAccess,
          snapshot, zoomReply, tierReply, calls,
          store, skip, feedItems, queries, pageLen, status,
          storeStatus,
          liturgistsToken, tokenStore, tokenMappingObj, nextCalled,
          upsertPc, upsertItems, upsertFirst, upsertCalls, returned, generated,
          contentfulEpisode, syncedItem, syncStatus, now

\* the second filterEntry pass, the kind handed to canAccessPatronMedia and
\* the episode whose item-level decision is compared with a feed-level one
callVars == <<refiltered, kind, episode, itemAccess>>

\* the inputs and the external calls of one fetchPledge
pledgeVars == <<snapshot, zoomReply, tierReply, calls>>

\* the rss route without the status of the response
rssVars_NoStatus == <<store, skip, feedItems, queries, pageLen>>

\* the rss route: the matching entries of the store and the paging loop
rssVars == <<store, skip, feedItems, queries, pageLen, status>>

\* handleLiturgistsToken: the credential of the request, the TokenMapping
\* table, the mapping the handler read from it, and whether next() was called
tokenVars == <<liturgistsToken, tokenStore, tokenMappingObj, nextCalled>>

\* the callers of upsertTokenMapping: the position of each, the items and
\* items[0] of its query, the calls it has started, and over all callers the
\* userIds returned and the number of userIds generated
upsertVars == <<upsertPc, upsertItems, upsertFirst, upsertCalls, returned,
                generated>>

\* the sync job: the episode the content store holds under the guid of the
\* feed item, the feed item of the last syncEpisode, the status it returned
\* (or the exception it threw) and the clock, in weeks
syncVars == <<contentfulEpisode, syncedItem, syncStatus, now>>

\* the contentful route (the status the content store answers with), the
\* token handlers and the sync job
gatewayVars == <<storeStatus, tokenVars, upsertVars, syncVars>>

vars == <<pc, pledge, entry, podcasts, contentfulData,
          access, filtered, response, body,
          callVars, pledgeVars, rssVars, gatewayVars>>

----------------------------------------------------------------------------
(* Bounds *)

\* longest items array of a list response
MaxItems == 2

\* ids of the podcast entries of the content store
PodcastIds == {"p1", "p2"}

----------------------------------------------------------------------------
(* JavaScript values *)

JsTrue == "true"
JsFalse == "false"
JsUndefined == "undefined"
JsNull == "null"

Bool3 == {JsTrue, JsFalse, JsUndefined}

ObjUndefined == [js |-> "undefined"]
ObjNull == [js |-> "null"]

Thrown(name) == [js |-> "throw", error |-> name]

Arr(s) == [arr |-> s]

\* an object: a record that is neither undefined, null nor an exception
IsObj(v) == "js" \notin DOMAIN v

IsThrown(v) == "js" \in DOMAIN v /\ v.js = "throw"

\* ToBoolean of a scalar
Truthy(v) == v \notin {JsFalse, JsUndefined, JsNull}

\* the scalar a non-object slot value evaluates to in an && chain
ScalarOf(v) == IF IsObj(v) THEN JsTrue ELSE v.js

JsBool(b) == IF b THEN JsTrue ELSE JsFalse

----------------------------------------------------------------------------
(* Entries of the content store *)

Entry(id, contentType, podcast, isFreePreview, media, mediaUrl, patronsOnly) ==
  [sys |-> [id |-> id, contentType |-> contentType],
   fields |-> [title |-> "title", podcast |-> podcast,
               isFreePreview |-> isFreePreview,
               media |-> media, mediaUrl |-> mediaUrl,
               patronsOnly |-> patronsOnly]]

\* a podcast entry as the content store returns it
Podcast(id, patronsOnly) ==
  Entry(id, "podcast", JsUndefined, JsUndefined, JsUndefined, JsUndefined,
        patronsOnly)

GatedTypes == {"podcastEpisode", "meditation", "liturgyItem"}

\* a kind filterEntry does not gate
OtherTypes == {"meditationCategory"}

MediaValues == {"asset", JsUndefined}
MediaUrlValues == {"url", JsUndefined}

\* every entry a single-entry fetch can return
Entries ==
  { Entry("e1", "podcastEpisode", p, f, m, u, po) :
      p \in PodcastIds \cup {JsUndefined},
      f \in Bool3, m \in MediaValues, u \in MediaUrlValues, po \in Bool3 }
  \cup
  { Entry("e1", t, JsUndefined, f, m, u, po) :
      t \in {"meditation", "liturgyItem"} \cup OtherTypes,
      f \in Bool3, m \in MediaValues, u \in MediaUrlValues, po \in Bool3 }
  \cup
  { Podcast(id, po) : id \in PodcastIds, po \in Bool3 }

\* the podcasts object filterData builds: id -> podcast entry or undefined
PodcastMaps ==
  [PodcastIds -> {ObjUndefined} \cup
     UNION { {Podcast(id, po) : po \in Bool3} : id \in PodcastIds }]

WellKeyed(m) == \A id \in PodcastIds : IsObj(m[id]) => m[id].sys.id = id

EmptyPodcasts == [id \in PodcastIds |-> ObjUndefined]

----------------------------------------------------------------------------
(* Pledge: src/src/pledge.js 50-118 *)

CAMPAIGN_URL == "https://www.patreon.com/theliturgists"

\* new Pledge(userData, tier, podcasts, zoomRoomPasscode)
Pledge(userData, tier, tierPodcasts, zoomRoomPasscode) ==
  [userData |-> userData, tier |-> tier, podcasts |-> tierPodcasts,
   zoomRoomPasscode |-> zoomRoomPasscode]

\* new Pledge(): every constructor argument undefined
NewPledge == Pledge(ObjUndefined, ObjUndefined, ObjUndefined, JsUndefined)

\* variant: patron status read from the user data instead of the tier
isPatron_FromUserData(p) == JsBool(IsObj(p.userData))

isPatron(p) == JsBool(IsObj(p.tier))

getPodcasts(p) ==
  IF ~IsObj(p.podcasts) THEN << >>
  ELSE [i \in 1..Len(p.podcasts.arr) |->
          [id |-> p.podcasts.arr[i].sys.id,
           title |-> p.podcasts.arr[i].fields.title]]

\* variant: any tier grants every patrons-only podcast
PledgeCanAccessPodcast_AnyTier(p, podcast) ==
  IF ~Truthy(podcast.fields.patronsOnly) THEN JsTrue
  ELSE IF ~IsObj(p.tier) \/ ~IsObj(p.podcasts) THEN JsFalse
  ELSE JsTrue

\* Pledge.canAccessPodcast(podcast)
PledgeCanAccessPodcast(p, podcast) ==
  IF ~Truthy(podcast.fields.patronsOnly) THEN JsTrue
  ELSE IF ~IsObj(p.tier) \/ ~IsObj(p.podcasts) THEN JsFalse
  ELSE JsBool(\E i \in 1..Len(p.podcasts.arr) :
                podcast.sys.id = p.podcasts.arr[i].sys.id)

canAccessMeditations(p) ==
  IF IsObj(p.tier) THEN p.tier.fields.canAccessMeditations ELSE JsFalse

canAccessLiturgies(p) ==
  IF IsObj(p.tier) THEN p.tier.fields.canAccessLiturgies ELSE JsFalse

canListenAdFree(p) ==
  IF IsObj(p.tier) THEN p.tier.fields.adFreeListening ELSE JsFalse

----------------------------------------------------------------------------
(* fetchPledge: src/src/pledge.js 9-48 *)

Tier(m, l, a) ==
  [sys |-> [id |-> "tier1", contentType |-> "tier"],
   fields |-> [canAccessMeditations |-> m, canAccessLiturgies |-> l,
               adFreeListening |-> a]]

Tiers == { Tier(m, l, a) : m \in Bool3, l \in Bool3, a \in {JsTrue, JsFalse} }

\* the linked entries a tier query can include, in the store's order
IncludedPodcastLists ==
  { << >>, <<Podcast("p1", JsTrue)>>, <<Podcast("p2", JsTrue)>>,
    <<Podcast("p1", JsTrue), Podcast("p2", JsTrue)>> }

\* answers of the content store to the tier query of fetchPledge: no tier or
\* one tier; `includes` is absent when the tier links nothing, holds no Entry
\* array when it links only assets, and else holds the linked podcasts
TierResponses ==
  { [items |-> << >>, includes |-> ObjUndefined] }
  \cup
  { [items |-> <<t>>, includes |-> inc] :
      t \in Tiers,
      inc \in {ObjUndefined, [Entry |-> ObjUndefined]}
              \cup { [Entry |-> Arr(l)] : l \in IncludedPodcastLists \ {<< >>} } }

PatreonPledge(rewardId, campaignUrl) ==
  [reward |-> [id |-> rewardId, campaign |-> [url |-> campaignUrl]]]

PatreonUser(pledges) == [data |-> [id |-> "user-1"], pledges |-> pledges]

\* what getPatreonUser hands to fetchPledge: null after a failed fetch,
\* else the user with the pledges relationship
PatreonUsers ==
  { ObjNull,
    PatreonUser(<< >>),
    PatreonUser(<<PatreonPledge("r9", "https://www.patreon.com/other")>>),
    PatreonUser(<<PatreonPledge("r9", "https://www.patreon.com/other"),
                  PatreonPledge("r1", CAMPAIGN_URL)>>) }

\* getCreds('zoom'): the secret, or a rejected promise
ZoomCreds == { [zoomRoomPasscode |-> "passcode"], Thrown("Error") }

\* the user has a pledge to this campaign: pledges.length > 0
HasCampaignPledge(patreonUserData) ==
  /\ IsObj(patreonUserData)
  /\ \E i \in 1..Len(patreonUserData.pledges) :
       patreonUserData.pledges[i].reward.campaign.url = CAMPAIGN_URL

\* the calls fetchPledge awaits, in order; the second getCreds and the tier
\* query follow only a resolved getCreds('zoom')
fetchPledgeCalls(patreonUserData, zoomCreds) ==
  IF ~HasCampaignPledge(patreonUserData) THEN << >>
  ELSE IF IsThrown(zoomCreds) THEN <<"getCreds zoom">>
  ELSE <<"getCreds zoom", "getCreds contentful", "getEntries tier">>

\* variant: a pledge to any campaign counts
fetchPledge_AnyCampaign(patreonUserData, zoomCreds, data) ==
  IF ~IsObj(patreonUserData)
  THEN Pledge(patreonUserData, ObjUndefined, ObjUndefined, JsUndefined)
  ELSE
    IF Len(patreonUserData.pledges) = 0
    THEN Pledge(patreonUserData, ObjUndefined, ObjUndefined, JsUndefined)
    ELSE IF IsThrown(zoomCreds) THEN zoomCreds
    ELSE IF IsThrown(data) THEN data
    ELSE IF Len(data.items) > 0
      THEN IF ~IsObj(data.includes) THEN Thrown("TypeError")
           ELSE Pledge(patreonUserData, data.items[1],
                       data.includes.Entry, zoomCreds.zoomRoomPasscode)
      ELSE Pledge(patreonUserData, ObjUndefined, ObjUndefined,
                  zoomCreds.zoomRoomPasscode)

fetchPledge(patreonUserData, zoomCreds, data) ==
  IF ~IsObj(patreonUserData)
  THEN Pledge(patreonUserData, ObjUndefined, ObjUndefined, JsUndefined)
  ELSE
    LET pledges == SelectSeq(patreonUserData.pledges,
                     LAMBDA p : p.reward.campaign.url = CAMPAIGN_URL)
    IN IF Len(pledges) = 0
       THEN Pledge(patreonUserData, ObjUndefined, ObjUndefined, JsUndefined)
       ELSE IF IsThrown(zoomCreds) THEN zoomCreds
       ELSE IF IsThrown(data) THEN data
       ELSE IF Len(data.items) > 0
         THEN IF ~IsObj(data.includes) THEN Thrown("TypeError")
              ELSE Pledge(patreonUserData, data.items[1],
                          data.includes.Entry, zoomCreds.zoomRoomPasscode)
         ELSE Pledge(patreonUserData, ObjUndefined, ObjUndefined,
                     zoomCreds.zoomRoomPasscode)

\* getPledge: null without a token or campaign url, else fetchPledge
Pledges ==
  { ObjNull, NewPledge }
  \cup
  { q \in { fetchPledge(u, z, d) :
              u \in PatreonUsers, z \in ZoomCreds, d \in TierResponses } :
      ~IsThrown(q) }

----------------------------------------------------------------------------
(* Access predicates: src/src/pledge.js 239-269 *)

\* a thrown exception where the normal result is a scalar
TypeError == "TypeError"
Error == "Error"

Throws(v) == v \in {TypeError, Error}

\* podcasts[id] on the object built by filterData
Lookup(m, id) == IF id \in DOMAIN m THEN m[id] ELSE ObjUndefined

\* variant: the pledge is required before the podcast is looked at
canAccessPodcast_PledgeFirst(p, podcast) ==
  IF ~IsObj(podcast) THEN TypeError
  ELSE IF ~IsObj(p) THEN ScalarOf(p)
  ELSE IF ~Truthy(podcast.fields.patronsOnly) THEN JsTrue
  ELSE PledgeCanAccessPodcast(p, podcast)

canAccessPodcast(p, podcast) ==
  IF ~IsObj(podcast) THEN TypeError
  ELSE
    LET patronsOnly == IF podcast.fields.patronsOnly = JsUndefined
                       THEN JsFalse ELSE podcast.fields.patronsOnly
    IN IF ~Truthy(patronsOnly) THEN JsTrue
       ELSE IF ~IsObj(p) THEN ScalarOf(p)
       ELSE PledgeCanAccessPodcast(p, podcast)

\* variant: the two entitlement flags are exchanged
canAccessPatronMedia_Swapped(p, contentType) ==
  IF ~IsObj(p) THEN JsFalse
  ELSE IF contentType = "meditation" THEN canAccessLiturgies(p)
  ELSE IF contentType = "liturgyItem" THEN canAccessMeditations(p)
  ELSE Error

canAccessPatronMedia(p, contentType) ==
  IF ~IsObj(p) THEN JsFalse
  ELSE IF contentType = "meditation" THEN canAccessMeditations(p)
  ELSE IF contentType = "liturgyItem" THEN canAccessLiturgies(p)
  ELSE Error

\* variant: the meditation / liturgyItem case is missing from the dispatch
canAccess_NoPatronMediaCase(p, item, podcastsById) ==
  IF item.sys.contentType = "podcastEpisode"
  THEN IF item.fields.podcast = JsUndefined THEN TypeError
       ELSE canAccessPodcast(p, Lookup(podcastsById, item.fields.podcast))
  ELSE JsTrue

canAccess(p, item, podcastsById) ==
  LET contentType == item.sys.contentType IN
  IF contentType = "podcastEpisode"
  THEN IF item.fields.podcast = JsUndefined THEN TypeError
       ELSE canAccessPodcast(p, Lookup(podcastsById, item.fields.podcast))
  ELSE IF contentType = "meditation" \/ contentType = "liturgyItem"
  THEN canAccessPatronMedia(p, contentType)
  ELSE JsTrue

\* variant: the pledge is required before the podcast is looked at
canAccessFeed_PledgeFirst(collectionObj, p) ==
  LET collectionType == collectionObj.sys.contentType IN
  IF collectionType = "podcast" THEN canAccessPodcast_PledgeFirst(p, collectionObj)
  ELSE IF collectionType # "meditationCategory" THEN Error
  ELSE canAccessPatronMedia(p, "meditation")

\* canAccessFeed: src/src/pledge.js 751-760; a rejected promise is the
\* exception it was rejected with
canAccessFeed(collectionObj, p) ==
  LET collectionType == collectionObj.sys.contentType IN
  IF collectionType = "podcast" THEN canAccessPodcast(p, collectionObj)
  ELSE IF collectionType # "meditationCategory" THEN Error
  ELSE canAccessPatronMedia(p, "meditation")

----------------------------------------------------------------------------
(* filterEntry and filterData: src/src/pledge.js 306-364 *)

\* variant: setting the marker also clears the free-preview flag
SetPatronsOnly_ClearsPreview(e, v) ==
  [e EXCEPT !.fields.patronsOnly = v, !.fields.isFreePreview = JsUndefined]

\* _.set(e, 'fields.patronsOnly', v)
SetPatronsOnly(e, v) == [e EXCEPT !.fields.patronsOnly = v]

\* variant: only fields.media is omitted
OmitMedia_MediaOnly(e) == [e EXCEPT !.fields.media = JsUndefined]

\* _.omit(e, ['fields.media', 'fields.mediaUrl'])
OmitMedia(e) ==
  [e EXCEPT !.fields.media = JsUndefined, !.fields.mediaUrl = JsUndefined]

\* variant: no check that the episode's podcast is in the podcasts object
filterEntry_NoParentCheck(e, p, podcastsById) ==
  IF e.sys.contentType \notin {"podcastEpisode", "meditation", "liturgyItem"}
  THEN e
  ELSE
    LET a == canAccess(p, e, podcastsById) IN
    IF Throws(a) THEN Thrown(a)
    ELSE IF Truthy(a) THEN [e EXCEPT !.fields.patronsOnly = JsFalse]
    ELSE [(IF Truthy(e.fields.isFreePreview) THEN e
           ELSE [e EXCEPT !.fields.media = JsUndefined,
                          !.fields.mediaUrl = JsUndefined])
            EXCEPT !.fields.patronsOnly = JsTrue]

\* variant: the media fields are removed from free previews as well
filterEntry_AlwaysOmit(e, p, podcastsById) ==
  IF e.sys.contentType \notin {"podcastEpisode", "meditation", "liturgyItem"}
  THEN e
  ELSE IF e.sys.contentType = "podcastEpisode" /\ e.fields.podcast = JsUndefined
  THEN Thrown(TypeError)
  ELSE IF e.sys.contentType = "podcastEpisode"
          /\ ~IsObj(Lookup(podcastsById, e.fields.podcast))
  THEN ObjNull
  ELSE
    LET a == canAccess(p, e, podcastsById) IN
    IF Throws(a) THEN Thrown(a)
    ELSE IF Truthy(a) THEN [e EXCEPT !.fields.patronsOnly = JsFalse]
    ELSE [e EXCEPT !.fields.media = JsUndefined,
                   !.fields.mediaUrl = JsUndefined,
                   !.fields.patronsOnly = JsTrue]

\* variant: a granted entry is returned without patronsOnly being set
filterEntry_GrantedUntouched(e, p, podcastsById) ==
  IF e.sys.contentType \notin {"podcastEpisode", "meditation", "liturgyItem"}
  THEN e
  ELSE IF e.sys.contentType = "podcastEpisode" /\ e.fields.podcast = JsUndefined
  THEN Thrown(TypeError)
  ELSE IF e.sys.contentType = "podcastEpisode"
          /\ ~IsObj(Lookup(podcastsById, e.fields.podcast))
  THEN ObjNull
  ELSE
    LET a == canAccess(p, e, podcastsById) IN
    IF Throws(a) THEN Thrown(a)
    ELSE IF Truthy(a) THEN e
    ELSE [(IF Truthy(e.fields.isFreePreview) THEN e
           ELSE [e EXCEPT !.fields.media = JsUndefined,
                          !.fields.mediaUrl = JsUndefined])
            EXCEPT !.fields.patronsOnly = JsTrue]

\* variant: an entry that already carries patronsOnly is not kept as a
\* free preview
filterEntry_RedactsMarked(e, p, podcastsById) ==
  IF e.sys.contentType \notin {"podcastEpisode", "meditation", "liturgyItem"}
  THEN e
  ELSE IF e.sys.contentType = "podcastEpisode" /\ e.fields.podcast = JsUndefined
  THEN Thrown(TypeError)
  ELSE IF e.sys.contentType = "podcastEpisode"
          /\ ~IsObj(Lookup(podcastsById, e.fields.podcast))
  THEN ObjNull
  ELSE
    LET a == canAccess(p, e, podcastsById) IN
    IF Throws(a) THEN Thrown(a)
    ELSE IF Truthy(a) THEN [e EXCEPT !.fields.patronsOnly = JsFalse]
    ELSE [(IF Truthy(e.fields.isFreePreview) /\ ~Truthy(e.fields.patronsOnly)
           THEN e
           ELSE [e EXCEPT !.fields.media = JsUndefined,
                          !.fields.mediaUrl = JsUndefined])
            EXCEPT !.fields.patronsOnly = JsTrue]

\* variant: no early return for the kinds that are not gated, as in the
\* older filterEntry of src/index.js 89-104
filterEntry_NoKindCheck(e, p, podcastsById) ==
  IF e.sys.contentType = "podcastEpisode" /\ e.fields.podcast = JsUndefined
  THEN Thrown(TypeError)
  ELSE IF e.sys.contentType = "podcastEpisode"
          /\ ~IsObj(Lookup(podcastsById, e.fields.podcast))
  THEN ObjNull
  ELSE
    LET a == canAccess(p, e, podcastsById) IN
    IF Throws(a) THEN Thrown(a)
    ELSE IF Truthy(a) THEN [e EXCEPT !.fields.patronsOnly = JsFalse]
    ELSE [(IF Truthy(e.fields.isFreePreview) THEN e
           ELSE [e EXCEPT !.fields.media = JsUndefined,
                          !.fields.mediaUrl = JsUndefined])
            EXCEPT !.fields.patronsOnly = JsTrue]

filterEntry(e, p, podcastsById) ==
  LET contentType == e.sys.contentType IN
  IF contentType \notin {"podcastEpisode", "meditation", "liturgyItem"}
  THEN e
  ELSE IF contentType = "podcastEpisode" /\ e.fields.podcast = JsUndefined
  THEN Thrown(TypeError)
  ELSE IF contentType = "podcastEpisode"
          /\ ~IsObj(Lookup(podcastsById, e.fields.podcast))
  THEN ObjNull
  ELSE
    LET a == canAccess(p, e, podcastsById) IN
    IF Throws(a) THEN Thrown(a)
    ELSE IF Truthy(a) THEN SetPatronsOnly(e, JsFalse)
    ELSE LET filteredEntry == IF Truthy(e.fields.isFreePreview)
                              THEN e ELSE OmitMedia(e)
         IN SetPatronsOnly(filteredEntry, JsTrue)

\* _.fromPairs of the included podcast entries: the last entry of an id wins
PodcastsOf(includedEntries) ==
  [id \in PodcastIds |->
     LET hits == SelectSeq(includedEntries,
                   LAMBDA x : x.sys.contentType = "podcast" /\ x.sys.id = id)
     IN IF Len(hits) = 0 THEN ObjUndefined ELSE hits[Len(hits)]]

IncludedEntries(d) ==
  IF IsObj(d.includes) /\ IsObj(d.includes.Entry)
  THEN d.includes.Entry.arr ELSE << >>

\* items.map(item => filterEntry(item, pledge, podcasts))
MapItems(d, p) ==
  [i \in 1..Len(d.items) |->
     filterEntry(d.items[i], p, PodcastsOf(IncludedEntries(d)))]

\* .filter(entry => !!entry)
FilterTruthy(s) == SelectSeq(s, LAMBDA x : IsObj(x))

\* variant: the surviving items are returned with the granted ones first
filterData_GrantedFirst(d, p) ==
  IF "items" \notin DOMAIN d
  THEN filterEntry(d, p, EmptyPodcasts)
  ELSE
    LET mapped == MapItems(d, p) IN
    IF \E i \in 1..Len(mapped) : IsThrown(mapped[i])
    THEN mapped[CHOOSE i \in 1..Len(mapped) :
                  /\ IsThrown(mapped[i])
                  /\ \A j \in 1..(i-1) : ~IsThrown(mapped[j])]
    ELSE [d EXCEPT !.items =
            SelectSeq(FilterTruthy(mapped),
                      LAMBDA x : x.fields.patronsOnly # JsTrue)
            \o SelectSeq(FilterTruthy(mapped),
                         LAMBDA x : x.fields.patronsOnly = JsTrue)]

filterData(d, p) ==
  IF "items" \notin DOMAIN d
  THEN filterEntry(d, p, EmptyPodcasts)
  ELSE
    LET mapped == MapItems(d, p) IN
    IF \E i \in 1..Len(mapped) : IsThrown(mapped[i])
    THEN mapped[CHOOSE i \in 1..Len(mapped) :
                  /\ IsThrown(mapped[i])
                  /\ \A j \in 1..(i-1) : ~IsThrown(mapped[j])]
    ELSE [d EXCEPT !.items = FilterTruthy(mapped)]

----------------------------------------------------------------------------
(* Responses of the content store to an entries query *)

ItemIds == <<"e1", "e2", "e3", "e4">>

\* the entries that can stand at position i of a list response
ItemsAt(i) ==
  { Entry(ItemIds[i], "podcastEpisode", p, f, "asset", JsUndefined, JsUndefined) :
      p \in PodcastIds, f \in {JsTrue, JsUndefined} }
  \cup
  { Entry(ItemIds[i], "podcastEpisode", JsUndefined, JsUndefined, "asset",
          JsUndefined, JsUndefined) }
  \cup
  { Entry(ItemIds[i], "meditation", JsUndefined, f, "asset", "url", JsUndefined) :
      f \in {JsTrue, JsUndefined} }
  \cup
  { Entry(ItemIds[i], "liturgyItem", JsUndefined, JsUndefined, "asset", "url",
          JsUndefined),
    Entry(ItemIds[i], "meditationCategory", JsUndefined, JsUndefined,
          JsUndefined, JsUndefined, JsUndefined) }

ItemLists ==
  UNION { { s \in [1..n -> UNION { ItemsAt(i) : i \in 1..n }] :
              \A i \in 1..n : s[i] \in ItemsAt(i) } : n \in 0..MaxItems }

\* the published podcasts a list response includes
IncludedPodcasts ==
  { l \in [PodcastIds -> {"none"} \cup Bool3] : TRUE }

Category == Entry("c1", "meditationCategory", JsUndefined, JsUndefined,
                  JsUndefined, JsUndefined, JsUndefined)

\* includes.Entry of a list response: the category of its meditations, then
\* the included podcasts; the key is absent when nothing is included
IncludesOf(items, inc) ==
  LET cats == IF \E i \in 1..Len(items) : items[i].sys.contentType = "meditation"
              THEN <<Category>> ELSE << >>
      p1 == IF inc["p1"] = "none" THEN << >> ELSE <<Podcast("p1", inc["p1"])>>
      p2 == IF inc["p2"] = "none" THEN << >> ELSE <<Podcast("p2", inc["p2"])>>
      all == cats \o p1 \o p2
  IN IF Len(all) = 0 THEN ObjUndefined ELSE [Entry |-> Arr(all)]

ListResponse(items, inc) ==
  [sys |-> [type |-> "Array"], total |-> Len(items), skip |-> 0,
   items |-> items, includes |-> IncludesOf(items, inc)]

ListResponses ==
  { ListResponse(items, inc) : items \in ItemLists, inc \in IncludedPodcasts }

----------------------------------------------------------------------------
(* The requests *)

NotCalled == "not called"

\* no fetchPledge is traced
NoFetch ==
  /\ snapshot = ObjUndefined
  /\ zoomReply = ObjUndefined
  /\ tierReply = ObjUndefined
  /\ calls = << >>

\* no feed is being assembled
NoFeed ==
  /\ store = << >>
  /\ skip = 0
  /\ feedItems = << >>
  /\ queries = << >>
  /\ pageLen = 0
  /\ status = 0

\* no request to the other handlers is under way
NoToken ==
  /\ liturgistsToken = JsUndefined
  /\ tokenStore = {}
  /\ tokenMappingObj = ObjUndefined
  /\ nextCalled = FALSE

\* the requests that call upsertTokenMapping: a patreon/validate and the
\* token refreshes of an app request and of a feed request
Callers == {"validate", "refresh", "feed refresh"}

NoUpsert ==
  /\ upsertPc = [c \in Callers |-> "idle"]
  /\ upsertItems = [c \in Callers |-> {}]
  /\ upsertFirst = [c \in Callers |-> ObjUndefined]
  /\ upsertCalls = [c \in Callers |-> 0]
  /\ returned = << >>
  /\ generated = 0

\* the sync job has not run
NoSync ==
  /\ contentfulEpisode = ObjUndefined
  /\ syncedItem = ObjUndefined
  /\ syncStatus = JsUndefined
  /\ now = 0

NoGateway ==
  /\ storeStatus = 0
  /\ NoToken
  /\ NoUpsert
  /\ NoSync

Init ==
  /\ pc = "request"
  /\ pledge \in Pledges
  /\ \/ /\ entry \in Entries
        /\ podcasts \in { m \in PodcastMaps : WellKeyed(m) }
        /\ contentfulData = ObjUndefined
     \/ /\ entry = ObjUndefined
        /\ podcasts = EmptyPodcasts
        /\ contentfulData \in Entries \cup ListResponses
     \/ /\ entry = ObjUndefined
        /\ podcasts = EmptyPodcasts
        /\ contentfulData = ObjUndefined
  /\ access = NotCalled
  /\ filtered = ObjUndefined
  /\ response = ObjUndefined
  /\ body = ObjUndefined
  /\ refiltered = ObjUndefined
  /\ kind = JsUndefined
  /\ episode = ObjUndefined
  /\ itemAccess = NotCalled
  /\ NoFetch
  /\ NoFeed
  /\ NoGateway

\* canAccess(pledge, entry, podcasts)
CanAccess ==
  /\ pc = "request"
  /\ IsObj(entry)
  /\ access' = canAccess(pledge, entry, podcasts)
  /\ pc' = "canAccess"
  /\ UNCHANGED <<pledge, entry, podcasts, contentfulData, filtered, response, body,
               callVars, pledgeVars, rssVars,
                 gatewayVars>>

\* pledge.canAccessPodcast(podcast), as the unit tests call it
PledgeCanAccessPodcastCall ==
  /\ pc = "request"
  /\ IsObj(entry)
  /\ entry.sys.contentType = "podcast"
  /\ IsObj(pledge)
  /\ access' = PledgeCanAccessPodcast(pledge, entry)
  /\ pc' = "Pledge.canAccessPodcast"
  /\ UNCHANGED <<pledge, entry, podcasts, contentfulData, filtered, response, body,
               callVars, pledgeVars, rssVars,
                 gatewayVars>>

\* filterEntry(entry, pledge, podcasts)
FilterEntry ==
  /\ pc = "request"
  /\ IsObj(entry)
  /\ filtered' = filterEntry(entry, pledge, podcasts)
  /\ pc' = "filterEntry"
  /\ UNCHANGED <<pledge, entry, podcasts, contentfulData, access, response, body,
               callVars, pledgeVars, rssVars,
                 gatewayVars>>

\* filterEntry applied to its own result, same pledge and podcasts
FilterEntryAgain ==
  /\ pc = "filterEntry"
  /\ IsObj(filtered)
  /\ refiltered' = filterEntry(filtered, pledge, podcasts)
  /\ pc' = "filterEntry twice"
  /\ UNCHANGED <<pledge, entry, podcasts, contentfulData, access, filtered,
                 response, body, kind, episode, itemAccess, pledgeVars,
                 rssVars,
                 gatewayVars>>

\* filterData(contentfulData, pledge)
FilterData ==
  /\ pc = "request"
  /\ IsObj(contentfulData)
  /\ response' = filterData(contentfulData, pledge)
  /\ pc' = "filterData"
  /\ UNCHANGED <<pledge, entry, podcasts, contentfulData, access, filtered, body,
               callVars, pledgeVars, rssVars,
                 gatewayVars>>

\* GET patron-pledge: src/src/pledge.js 1049-1065
PatronPledge ==
  /\ pc = "request"
  /\ ~IsObj(entry)
  /\ ~IsObj(contentfulData)
  /\ body' = IF ~IsObj(pledge) THEN Thrown(TypeError)
             ELSE [podcasts |-> getPodcasts(pledge),
                   userData |-> pledge.userData,
                   isPatron |-> isPatron(pledge),
                   canAccessMeditations |-> canAccessMeditations(pledge),
                   canAccessLiturgies |-> canAccessLiturgies(pledge),
                   canListenAdFree |-> canListenAdFree(pledge),
                   zoomRoomPasscode |-> pledge.zoomRoomPasscode]
  /\ pc' = "patron-pledge"
  /\ UNCHANGED <<pledge, entry, podcasts, contentfulData, access, filtered, response,
               callVars, pledgeVars, rssVars,
                 gatewayVars>>

Next ==
  \/ CanAccess
  \/ PledgeCanAccessPodcastCall
  \/ FilterEntry
  \/ FilterEntryAgain
  \/ FilterData
  \/ PatronPledge

Spec == Init /\ [][Next]_vars

TypeOK == pc \in {"request", "canAccess", "Pledge.canAccessPodcast",
                  "filterEntry", "filterEntry twice", "filterData",
                  "patron-pledge", "canAccessPatronMedia", "canAccessFeed",
                  "canAccess episode", "fetchPledge", "zoom creds",
                  "tier query", "rss", "page", "feed", "401", "error",
                  "contentful", "refresh", "getPledge", "refresh again",
                  "getPledge again", "next", "sync"}

----------------------------------------------------------------------------
(* Feed-level access: src/src/pledge.js 246-257, 751-760 *)

\* the kinds canAccessPatronMedia is called with
PatronMediaKinds == {"meditation", "liturgyItem", "podcastEpisode", "liturgy"}

\* the collection entries a feed can be asked for
FeedCollections ==
  { Podcast(id, po) : id \in PodcastIds, po \in Bool3 }
  \cup
  { Entry("c1", t, JsUndefined, JsUndefined, JsUndefined, JsUndefined, JsUndefined) :
      t \in {"meditationCategory", "liturgy", "tier"} }

\* the episodes that reference the podcast with this id
EpisodesOf(id) ==
  { Entry("e1", "podcastEpisode", id, f, m, u, po) :
      f \in Bool3, m \in MediaValues, u \in MediaUrlValues, po \in Bool3 }

InitFeed ==
  /\ pc = "request"
  /\ pledge \in Pledges
  /\ \/ /\ entry \in FeedCollections
        /\ kind = JsUndefined
     \/ /\ entry = ObjUndefined
        /\ kind \in PatronMediaKinds
  /\ podcasts = EmptyPodcasts
  /\ contentfulData = ObjUndefined
  /\ access = NotCalled
  /\ filtered = ObjUndefined
  /\ response = ObjUndefined
  /\ body = ObjUndefined
  /\ refiltered = ObjUndefined
  /\ episode = ObjUndefined
  /\ itemAccess = NotCalled
  /\ NoFetch
  /\ NoFeed
  /\ NoGateway

\* canAccessPatronMedia(pledge, kind)
CanAccessPatronMedia ==
  /\ pc = "request"
  /\ kind # JsUndefined
  /\ access' = canAccessPatronMedia(pledge, kind)
  /\ pc' = "canAccessPatronMedia"
  /\ UNCHANGED <<pledge, entry, podcasts, contentfulData, filtered, response, body,
                 callVars, pledgeVars, rssVars,
                 gatewayVars>>

\* await canAccessFeed(entry, pledge)
CanAccessFeed ==
  /\ pc = "request"
  /\ IsObj(entry)
  /\ access' = canAccessFeed(entry, pledge)
  /\ pc' = "canAccessFeed"
  /\ UNCHANGED <<pledge, entry, podcasts, contentfulData, filtered, response, body,
                 callVars, pledgeVars, rssVars,
                 gatewayVars>>

\* canAccess(pledge, e, {[entry.sys.id]: entry}) for an episode e of the podcast
\* whose feed was just decided
CanAccessEpisode ==
  /\ pc = "canAccessFeed"
  /\ entry.sys.contentType = "podcast"
  /\ \E e \in EpisodesOf(entry.sys.id) :
       /\ episode' = e
       /\ itemAccess' = canAccess(pledge, e,
                                  [EmptyPodcasts EXCEPT ![entry.sys.id] = entry])
  /\ pc' = "canAccess episode"
  /\ UNCHANGED <<pledge, entry, podcasts, contentfulData, access, filtered,
                 response, body, refiltered, kind, pledgeVars, rssVars,
                 gatewayVars>>

NextFeed ==
  \/ CanAccessPatronMedia
  \/ CanAccessFeed
  \/ CanAccessEpisode

SpecFeed == InitFeed /\ [][NextFeed]_vars

----------------------------------------------------------------------------
(* One fetchPledge with its awaited calls: src/src/pledge.js 9-48 *)

\* what getCreds('zoom') settles to: the secret, an object without it
\* (src/src/creds.js has no credSpec named zoom, and zips no keys), or a
\* rejection of the parameter store, which getCreds does not catch
ZoomReplies == ZoomCreds \cup {[zoomRoomPasscode |-> JsUndefined]}

InitPledge ==
  /\ pc = "request"
  /\ snapshot \in PatreonUsers
  /\ zoomReply \in ZoomReplies
  /\ tierReply \in TierResponses
  /\ calls = << >>
  /\ pledge = ObjUndefined
  /\ entry = ObjUndefined
  /\ podcasts = EmptyPodcasts
  /\ contentfulData = ObjUndefined
  /\ access = NotCalled
  /\ filtered = ObjUndefined
  /\ response = ObjUndefined
  /\ body = ObjUndefined
  /\ refiltered = ObjUndefined
  /\ kind = JsUndefined
  /\ episode = ObjUndefined
  /\ itemAccess = NotCalled
  /\ NoFeed
  /\ NoGateway

\* await fetchPledge(snapshot): the pledge, or the exception it rejects with
FetchPledge ==
  /\ pc = "request"
  /\ pledge' = fetchPledge(snapshot, zoomReply, tierReply)
  /\ calls' = fetchPledgeCalls(snapshot, zoomReply)
  /\ pc' = "fetchPledge"
  /\ UNCHANGED <<entry, podcasts, contentfulData, access, filtered, response, body,
                 callVars, snapshot, zoomReply, tierReply, rssVars,
                 gatewayVars>>

NextPledge == FetchPledge

SpecPledge == InitPledge /\ [][NextPledge]_vars

----------------------------------------------------------------------------
(* GET rss/:collection/:collectionId: src/src/pledge.js 810-970 *)

\* the page size of the entries query (1000 in the source, scaled down)
limit == 2

\* most entries of one collection in the content store
MaxStore == 5

StoreId(i) == "e" \o ToString(i)

\* the entries the query of the feed matches, in -publishedAt order: the
\* episodes of the podcast, or the meditations of the category (of every
\* category for the "all" pseudo-collection, which has no collection object)
StoreOf(collectionObj, n) ==
  [i \in 1..n |->
     IF IsObj(collectionObj) /\ collectionObj.sys.contentType = "podcast"
     THEN Entry(StoreId(i), "podcastEpisode", collectionObj.sys.id, JsUndefined,
                "asset", JsUndefined, JsUndefined)
     ELSE Entry(StoreId(i), "meditation", JsUndefined, JsUndefined,
                "asset", "url", JsUndefined)]

Min(a, b) == IF a < b THEN a ELSE b

\* the answer of the content store to the entries query with this skip; the
\* podcast of the episodes is included while it is published
Page(collectionObj, published) ==
  LET raw == SubSeq(store, skip + 1, Min(skip + limit, Len(store)))
      inc == [id \in PodcastIds |->
                IF /\ IsObj(collectionObj)
                   /\ collectionObj.sys.id = id
                   /\ published
                THEN collectionObj.fields.patronsOnly ELSE "none"]
  IN [ListResponse(raw, inc) EXCEPT !.total = Len(store), !.skip = skip]

InitRss ==
  /\ pc = "request"
  /\ pledge \in Pledges
  /\ entry \in FeedCollections \cup {ObjUndefined}
  /\ \E n \in 0..MaxStore : store = StoreOf(entry, n)
  /\ podcasts = EmptyPodcasts
  /\ contentfulData = ObjUndefined
  /\ access = NotCalled
  /\ filtered = ObjUndefined
  /\ response = ObjUndefined
  /\ body = ObjUndefined
  /\ refiltered = ObjUndefined
  /\ kind = JsUndefined
  /\ episode = ObjUndefined
  /\ itemAccess = NotCalled
  /\ NoFetch
  /\ skip = 0
  /\ feedItems = << >>
  /\ queries = << >>
  /\ pageLen = 0
  /\ status = 0
  /\ NoGateway

\* variant: the paging loop is entered whatever the access decision was
RssAccess_PagesAnyway ==
  /\ pc = "request"
  /\ LET a == IF IsObj(entry) THEN canAccessFeed(entry, pledge)
              ELSE canAccessPatronMedia(pledge, "meditation")
     IN /\ access' = a
        /\ IF Throws(a) THEN pc' = "error" /\ status' = 500
           ELSE pc' = "page" /\ status' = status
  /\ UNCHANGED <<pledge, entry, podcasts, contentfulData, filtered, response, body,
                 callVars, pledgeVars, store, skip, feedItems, queries, pageLen,
                 gatewayVars>>

\* the handler up to the paging loop (lines 830-878): the access decision on
\* the collection object, or on meditations in general when there is none;
\* the collections here carry neither a feedUrl nor an image
RssAccess ==
  /\ pc = "request"
  /\ LET a == IF IsObj(entry) THEN canAccessFeed(entry, pledge)
              ELSE canAccessPatronMedia(pledge, "meditation")
     IN /\ access' = a
        /\ IF Throws(a) THEN pc' = "error" /\ status' = 500
           ELSE IF ~Truthy(a) THEN pc' = "401" /\ status' = 401
           ELSE pc' = "page" /\ status' = status
  /\ UNCHANGED <<pledge, entry, podcasts, contentfulData, filtered, response, body,
                 callVars, pledgeVars, store, skip, feedItems, queries, pageLen,
                 gatewayVars>>

\* one turn of the while loop (lines 892-899): the query, filterData on the
\* answer inside contentfulGet, the concatenation and the test for a short
\* page; after the last turn the feed is sent
FetchPage ==
  /\ pc = "page"
  /\ \E published \in BOOLEAN :
       LET answer == Page(entry, published)
           d == filterData(answer, pledge)
       IN /\ queries' = Append(queries, skip)
          /\ pageLen' = Len(answer.items)
          /\ response' = d
          /\ IF IsThrown(d)
             THEN /\ pc' = "error"
                  /\ status' = 500
                  /\ UNCHANGED <<feedItems, skip>>
             ELSE /\ feedItems' = feedItems \o d.items
                  /\ IF Len(d.items) < limit
                     THEN pc' = "feed" /\ status' = 200 /\ skip' = skip
                     ELSE pc' = "page" /\ status' = status /\ skip' = skip + limit
  /\ UNCHANGED <<pledge, entry, podcasts, contentfulData, access, filtered, body,
                 callVars, pledgeVars, store,
                 gatewayVars>>

NextRss ==
  \/ RssAccess
  \/ FetchPage

SpecRss == InitRss /\ [][NextRss]_vars

----------------------------------------------------------------------------
(* contentfulGet and the contentful route: src/src/pledge.js 684-749 *)

\* new Error() with e.status and e.json set; status 0 is an unset e.status
HttpError(name, code, json) ==
  [js |-> "throw", error |-> name, status |-> code, json |-> json]

\* the body the content store sends with an error status
ErrorBody(id) == [sys |-> [type |-> "Error", id |-> id], message |-> id]

\* e.json of an exception of filterData
PatreonErrorBody ==
  [error |-> "Error verifying Patreon status. Please re-connect Patreon and try again."]

UnknownErrorBody == [error |-> "Unkown error"]

\* answers of the content store with a status of 400 or more; the last one
\* has no body
StoreErrors ==
  { [status |-> 400, data |-> ErrorBody("BadRequest")],
    [status |-> 401, data |-> ErrorBody("AccessTokenInvalid")],
    [status |-> 404, data |-> ErrorBody("NotFound")],
    [status |-> 429, data |-> ErrorBody("RateLimitExceeded")],
    [status |-> 500, data |-> ErrorBody("ServerError")],
    [status |-> 502, data |-> ObjUndefined] }

\* variant: the exception does not carry the status of the store
contentfulGet_LosesStatus(code, data, p, filter) ==
  IF code >= 400 THEN HttpError(Error, 0, data)
  ELSE IF ~filter THEN data
  ELSE LET d == filterData(data, p)
       IN IF IsThrown(d) THEN HttpError(d.error, 0, PatreonErrorBody) ELSE d

\* contentfulGet(path, params, pledge, filter) on the answer (code, data) of
\* the content store, the credentials being resolved
contentfulGet(code, data, p, filter) ==
  IF code >= 400 THEN HttpError(Error, code, data)
  ELSE IF ~filter THEN data
  ELSE LET d == filterData(data, p)
       IN IF IsThrown(d) THEN HttpError(d.error, 0, PatreonErrorBody) ELSE d

InitContentful ==
  /\ pc = "request"
  /\ pledge \in Pledges
  /\ \/ /\ storeStatus = 200
        /\ contentfulData \in
             Entries \cup { r \in ListResponses : Len(r.items) <= 1 }
     \/ \E a \in StoreErrors :
          /\ storeStatus = a.status
          /\ contentfulData = a.data
  /\ entry = ObjUndefined
  /\ podcasts = EmptyPodcasts
  /\ access = NotCalled
  /\ filtered = ObjUndefined
  /\ response = ObjUndefined
  /\ body = ObjUndefined
  /\ refiltered = ObjUndefined
  /\ kind = JsUndefined
  /\ episode = ObjUndefined
  /\ itemAccess = NotCalled
  /\ NoFetch
  /\ NoFeed
  /\ NoToken
  /\ NoUpsert
  /\ NoSync

\* GET contentful/spaces/:space/environments/:env/*: the result of
\* contentfulGet is kept in response, what is sent in status and body
ContentfulRoute ==
  /\ pc = "request"
  /\ LET r == contentfulGet(storeStatus, contentfulData, pledge, TRUE)
     IN /\ response' = r
        /\ IF IsThrown(r)
           THEN /\ status' = (IF r.status # 0 THEN r.status ELSE 500)
                /\ body' = (IF IsObj(r.json) THEN r.json ELSE UnknownErrorBody)
           ELSE /\ status' = 200
                /\ body' = r
  /\ pc' = "contentful"
  /\ UNCHANGED <<pledge, entry, podcasts, contentfulData, access, filtered,
                 callVars, pledgeVars, store, skip, feedItems, queries, pageLen,
                 storeStatus, syncVars, tokenVars, upsertVars>>

NextContentful == ContentfulRoute

SpecContentful == InitContentful /\ [][NextContentful]_vars

----------------------------------------------------------------------------
(* The TokenMapping table and upsertTokenMapping:
   src/unnamed/part_002 4-24, src/src/pledge.js 516-545 *)

\* an item of the table; userId is the hash key
TokenMapping(userId, patreonUserId, patreonToken, refreshToken, expiresAt) ==
  [userId |-> userId, patreonUserId |-> patreonUserId,
   patreonToken |-> patreonToken, refreshToken |-> refreshToken,
   expiresAt |-> expiresAt]

\* TokenMapping.query(userId)
QueryByUserId(table, userId) == { m \in table : m.userId = userId }

\* TokenMapping.query(patreonUserId).usingIndex('patreonUserIdIndex')
QueryByPatreonUserId(table, patreonUserId) ==
  { m \in table : m.patreonUserId = patreonUserId }

\* TokenMapping.create / update with every attribute given: the item of
\* that hash key is written
PutItem(table, m) == { x \in table : x.userId # m.userId } \cup {m}

\* item.destroy()
DestroyItem(table, userId) == { x \in table : x.userId # userId }

\* what items[0] of a query result can be
FirstOf(found) == IF found = {} THEN {ObjUndefined} ELSE found

\* items.slice(1).map(item => item.destroy())
TidyDuplicates(table, found, first) ==
  { x \in table : \A y \in found \ {first} : x.userId # y.userId }

\* variant: a new userId is generated at every call
UpsertItem_AlwaysNewId(table, found, first, attrs, newId) ==
  PutItem(table,
          TokenMapping(newId, attrs.patreonUserId, attrs.patreonToken,
                       attrs.refreshToken, attrs.expiresAt))

\* TokenMapping.update with the userId of items[0], or TokenMapping.create
\* with newId, which is what generate(alphabet, 32) returns
UpsertItem(table, found, first, attrs, newId) ==
  PutItem(table,
          TokenMapping(IF found # {} THEN first.userId ELSE newId,
                       attrs.patreonUserId, attrs.patreonToken,
                       attrs.refreshToken, attrs.expiresAt))

\* the write of upsertTokenMapping after its query returned items with
\* first as items[0]; newId is what generate(alphabet, 32) returns
UpsertWrite(table, found, first, attrs, newId) ==
  UpsertItem(TidyDuplicates(table, found, first), found, first, attrs, newId)

----------------------------------------------------------------------------
(* handleLiturgistsToken: src/src/pledge.js 271-304, 381-514 *)

ERROR_CODE_NEED_PATREON_REAUTH == "needPatreonReauth"

Reauth(message) == [error |-> message, code |-> ERROR_CODE_NEED_PATREON_REAUTH]

\* getPledge(patreon) on the answers of Patreon (null when the fetch of the
\* user failed), of getCreds('zoom') and of the tier query
getPledge(patreon, user, zoomCreds, data) ==
  IF ~Truthy(patreon.token) \/ ~Truthy(patreon.campaignUrl) THEN ObjNull
  ELSE fetchPledge(user, zoomCreds, data)

\* the mappings a session token can be stored with
StoredMappings ==
  { TokenMapping("u1", "pu1", pt, rt, ex) :
      pt \in {"pt0", JsUndefined}, rt \in {"rt0", JsUndefined},
      ex \in {"soon", "later"} }

\* the mapping of another session
OtherMapping == TokenMapping("u0", "pu0", "pt", "rt", "later")

\* variant: no token is refreshed before it is used
ExpiresWithinOneDay_Never(m) == FALSE

\* moment(expiresAt).isBefore(moment().add(1, 'day'))
ExpiresWithinOneDay(m) == m.expiresAt = "soon"

\* the tokens Patreon issues at the n-th refresh of the request
Refreshed(m, n) ==
  [patreonUserId |-> m.patreonUserId,
   patreonToken |-> "pt" \o ToString(n), refreshToken |-> "rt" \o ToString(n),
   expiresAt |-> "later"]

Count(log, what) == Len(SelectSeq(log, LAMBDA x : x = what))

InitToken ==
  /\ pc = "request"
  /\ liturgistsToken \in {JsUndefined, "old header", "u1"}
  /\ tokenStore \in {{OtherMapping}}
                    \cup { {OtherMapping, m} : m \in StoredMappings }
  /\ tokenMappingObj = ObjUndefined
  /\ nextCalled = FALSE
  /\ pledge = ObjUndefined
  /\ status = 0
  /\ body = ObjUndefined
  /\ calls = << >>
  /\ snapshot = ObjUndefined
  /\ zoomReply = ObjUndefined
  /\ tierReply = ObjUndefined
  /\ entry = ObjUndefined
  /\ podcasts = EmptyPodcasts
  /\ contentfulData = ObjUndefined
  /\ access = NotCalled
  /\ filtered = ObjUndefined
  /\ response = ObjUndefined
  /\ refiltered = ObjUndefined
  /\ kind = JsUndefined
  /\ episode = ObjUndefined
  /\ itemAccess = NotCalled
  /\ store = << >>
  /\ skip = 0
  /\ feedItems = << >>
  /\ queries = << >>
  /\ pageLen = 0
  /\ storeStatus = 0
  /\ NoUpsert
  /\ NoSync

\* variant: the catch passes the request on with an empty pledge
InvalidToken_PassesOn ==
  /\ tokenStore' = tokenStore
  /\ pledge' = NewPledge
  /\ nextCalled' = TRUE
  /\ pc' = "next"
  /\ UNCHANGED <<status, body>>

\* variant: the catch answers 401 and leaves the mapping in the table
InvalidToken_KeepsMapping ==
  /\ tokenStore' = tokenStore
  /\ status' = 401
  /\ body' = Reauth("invalid token")
  /\ pc' = "401"
  /\ UNCHANGED <<pledge, nextCalled>>

\* the catch of the handler (lines 491-505): the mapping that was read is
\* destroyed and the request is answered 401
InvalidToken ==
  /\ tokenStore' = IF IsObj(tokenMappingObj')
                   THEN DestroyItem(tokenStore, tokenMappingObj'.userId)
                   ELSE tokenStore
  /\ status' = 401
  /\ body' = Reauth("invalid token")
  /\ pc' = "401"
  /\ UNCHANGED <<pledge, nextCalled>>

\* the handler up to its first await on Patreon (lines 437-474): the header
\* of old app versions, the token, the query of the table and the tokens of
\* the mapping; getCreds('patreon') and the table are taken to answer
TokenLookup ==
  /\ pc = "request"
  /\ IF liturgistsToken = "old header"
     THEN /\ status' = 401
          /\ body' = Reauth("invalid auth header")
          /\ pc' = "401"
          /\ UNCHANGED <<pledge, nextCalled, tokenStore, tokenMappingObj>>
     ELSE IF ~Truthy(liturgistsToken)
     THEN /\ pledge' = NewPledge
          /\ nextCalled' = TRUE
          /\ pc' = "next"
          /\ UNCHANGED <<status, body, tokenStore, tokenMappingObj>>
     ELSE LET found == QueryByUserId(tokenStore, liturgistsToken) IN
          IF found = {}
          THEN /\ tokenMappingObj' = tokenMappingObj
               /\ InvalidToken
          ELSE \E first \in found :
                 /\ tokenMappingObj' = first
                 /\ IF ~Truthy(first.patreonToken) \/ ~Truthy(first.refreshToken)
                    THEN InvalidToken
                    ELSE /\ pc' = IF ExpiresWithinOneDay(first)
                                  THEN "refresh" ELSE "getPledge"
                         /\ UNCHANGED <<pledge, nextCalled, status, body,
                                        tokenStore>>
  /\ UNCHANGED <<entry, podcasts, contentfulData, access, filtered, response,
                 callVars, pledgeVars, store, skip, feedItems, queries, pageLen,
                 storeStatus, syncVars, liturgistsToken, upsertVars>>

\* await refreshPatreonToken(tokenMapping) (lines 381-423), before the first
\* getPledge or after it failed: the post to Patreon fails or not, the user
\* fetch answers the user or null, and the mapping is upserted
RefreshPatreonToken ==
  /\ pc \in {"refresh", "refresh again"}
  /\ tokenMappingObj' = tokenMappingObj
  /\ \E posted \in BOOLEAN, user \in {ObjNull, [id |-> tokenMappingObj.patreonUserId]} :
       IF ~posted
       THEN /\ calls' = calls \o <<"refresh", "refresh failed">>
            /\ snapshot' = snapshot
            /\ InvalidToken
       ELSE /\ snapshot' = user
            /\ IF ~IsObj(user)
               THEN /\ calls' = calls \o <<"refresh", "refresh failed">>
                    /\ InvalidToken
               ELSE /\ calls' = Append(calls, "refresh")
                    /\ \E first \in FirstOf(QueryByPatreonUserId(tokenStore, user.id)) :
                         tokenStore' =
                           UpsertWrite(tokenStore,
                                       QueryByPatreonUserId(tokenStore, user.id),
                                       first,
                                       Refreshed(tokenMappingObj,
                                                 Count(calls, "refresh") + 1),
                                       "u2")
                    /\ pc' = IF pc = "refresh" THEN "getPledge"
                             ELSE "getPledge again"
                    /\ UNCHANGED <<pledge, nextCalled, status, body>>
  /\ UNCHANGED <<entry, podcasts, contentfulData, access, filtered, response,
                 callVars, zoomReply, tierReply, rssVars_NoStatus,
                 storeStatus, syncVars, liturgistsToken, upsertVars>>

\* req.pledge = await getPledge({ token, campaignUrl }) (lines 481-489),
\* first or second attempt
GetPledge ==
  /\ pc \in {"getPledge", "getPledge again"}
  /\ tokenMappingObj' = tokenMappingObj
  /\ \E user \in PatreonUsers, zoomCreds \in ZoomReplies, data \in TierResponses :
       LET n == Count(calls, "refresh")
           patreonToken == IF n = 0 THEN tokenMappingObj.patreonToken
                           ELSE Refreshed(tokenMappingObj, n).patreonToken
           r == getPledge([token |-> patreonToken, campaignUrl |-> CAMPAIGN_URL],
                          user, zoomCreds, data)
       IN /\ snapshot' = user
          /\ calls' = IF IsThrown(r) THEN calls \o <<"getPledge", "getPledge failed">>
                      ELSE Append(calls, "getPledge")
          /\ zoomReply' = zoomCreds
          /\ tierReply' = data
          /\ IF ~IsThrown(r)
             THEN /\ pledge' = r
                  /\ nextCalled' = TRUE
                  /\ pc' = "next"
                  /\ UNCHANGED <<status, body, tokenStore>>
             ELSE IF pc = "getPledge"
             THEN /\ pc' = "refresh again"
                  /\ UNCHANGED <<pledge, nextCalled, status, body, tokenStore>>
             ELSE InvalidToken
  /\ UNCHANGED <<entry, podcasts, contentfulData, access, filtered, response,
                 callVars, rssVars_NoStatus, storeStatus, syncVars,
                 liturgistsToken,
                 upsertVars>>

NextToken ==
  \/ TokenLookup
  \/ RefreshPatreonToken
  \/ GetPledge

SpecToken == InitToken /\ [][NextToken]_vars

----------------------------------------------------------------------------
(* Calls of upsertTokenMapping: src/src/pledge.js 516-545, called from
   refreshPatreonToken (414-419) and the patreon/validate route (629-634) *)

\* most calls one caller makes, one after another
MaxUpserts == 2

\* most calls one caller makes while the calls of the others overlap
MaxOverlapped == 1

\* the Patreon user all callers upsert a mapping for
PatreonUserId == "pu1"

\* the argument of the n-th call of caller c
UpsertAttrs(c, n) ==
  [patreonUserId |-> PatreonUserId,
   patreonToken |-> "pt-" \o c \o ToString(n),
   refreshToken |-> "rt-" \o c \o ToString(n),
   expiresAt |-> "later"]

\* generate(alphabet, 32): an id that no item has
NewUserId(n) == "g" \o ToString(n)

\* no filter, feed, pledge or token request is under way
NoRequest ==
  /\ pledge = ObjUndefined
  /\ entry = ObjUndefined
  /\ podcasts = EmptyPodcasts
  /\ contentfulData = ObjUndefined
  /\ access = NotCalled
  /\ filtered = ObjUndefined
  /\ response = ObjUndefined
  /\ body = ObjUndefined
  /\ refiltered = ObjUndefined
  /\ kind = JsUndefined
  /\ episode = ObjUndefined
  /\ itemAccess = NotCalled
  /\ NoFetch
  /\ NoFeed
  /\ storeStatus = 0
  /\ liturgistsToken = JsUndefined
  /\ tokenMappingObj = ObjUndefined
  /\ nextCalled = FALSE

\* the table holds the mapping of another user and at most one mapping of
\* this user
InitUpsert ==
  /\ pc = "request"
  /\ NoRequest
  /\ tokenStore \in {{OtherMapping},
                     {OtherMapping,
                      TokenMapping("u1", PatreonUserId, "pt0", "rt0", "soon")}}
  /\ NoUpsert
  /\ NoSync

\* the query by patreonUserId (lines 520-526)
UpsertQuery(c) ==
  /\ upsertPc[c] = "idle"
  /\ upsertCalls[c] < MaxOverlapped
  /\ LET found == QueryByPatreonUserId(tokenStore, PatreonUserId) IN
     /\ \E first \in FirstOf(found) :
          upsertFirst' = [upsertFirst EXCEPT ![c] = first]
     /\ upsertItems' = [upsertItems EXCEPT ![c] = found]
     /\ upsertPc' = [upsertPc EXCEPT
                       ![c] = IF Cardinality(found) > 1 THEN "tidy" ELSE "write"]
  /\ upsertCalls' = [upsertCalls EXCEPT ![c] = @ + 1]
  /\ UNCHANGED <<pc, pledge, entry, podcasts, contentfulData, access, filtered,
                 response, body, callVars, pledgeVars, rssVars, storeStatus,
                 syncVars,
                 tokenVars, returned, generated>>

\* the duplicates of the query are destroyed (lines 528-532)
UpsertTidy(c) ==
  /\ upsertPc[c] = "tidy"
  /\ tokenStore' = TidyDuplicates(tokenStore, upsertItems[c], upsertFirst[c])
  /\ upsertPc' = [upsertPc EXCEPT ![c] = "write"]
  /\ UNCHANGED <<pc, pledge, entry, podcasts, contentfulData, access, filtered,
                 response, body, callVars, pledgeVars, rssVars, storeStatus,
                 syncVars,
                 liturgistsToken, tokenMappingObj, nextCalled,
                 upsertItems, upsertFirst, upsertCalls, returned, generated>>

\* TokenMapping.update or TokenMapping.create, and the return (lines 533-544)
UpsertPut(c) ==
  /\ upsertPc[c] = "write"
  /\ tokenStore' = UpsertItem(tokenStore, upsertItems[c], upsertFirst[c],
                              UpsertAttrs(c, upsertCalls[c]),
                              NewUserId(generated + 1))
  /\ generated' = IF upsertItems[c] = {} THEN generated + 1 ELSE generated
  /\ returned' = Append(returned, IF upsertItems[c] = {}
                                  THEN NewUserId(generated + 1)
                                  ELSE upsertFirst[c].userId)
  /\ upsertPc' = [upsertPc EXCEPT ![c] = "idle"]
  /\ UNCHANGED <<pc, pledge, entry, podcasts, contentfulData, access, filtered,
                 response, body, callVars, pledgeVars, rssVars, storeStatus,
                 syncVars,
                 liturgistsToken, tokenMappingObj, nextCalled,
                 upsertItems, upsertFirst, upsertCalls>>

\* the calls overlap: each await of a call is a step
NextUpsert ==
  \E c \in Callers :
    \/ UpsertQuery(c)
    \/ UpsertTidy(c)
    \/ UpsertPut(c)

SpecUpsert == InitUpsert /\ [][NextUpsert]_vars

\* one call of upsertTokenMapping from its query to its return, no other
\* call in between
UpsertTokenMapping(c) ==
  /\ upsertCalls[c] < MaxUpserts
  /\ LET found == QueryByPatreonUserId(tokenStore, PatreonUserId) IN
     \E first \in FirstOf(found) :
       /\ tokenStore' = UpsertWrite(tokenStore, found, first,
                                    UpsertAttrs(c, upsertCalls[c] + 1),
                                    NewUserId(generated + 1))
       /\ generated' = IF found = {} THEN generated + 1 ELSE generated
       /\ returned' = Append(returned, IF found = {}
                                       THEN NewUserId(generated + 1)
                                       ELSE first.userId)
  /\ upsertCalls' = [upsertCalls EXCEPT ![c] = @ + 1]
  /\ UNCHANGED <<pc, pledge, entry, podcasts, contentfulData, access, filtered,
                 response, body, callVars, pledgeVars, rssVars, storeStatus,
                 syncVars,
                 liturgistsToken, tokenMappingObj, nextCalled,
                 upsertPc, upsertItems, upsertFirst>>

\* the calls follow one another
NextUpsertInTurn == \E c \in Callers : UpsertTokenMapping(c)

SpecUpsertInTurn == InitUpsert /\ [][NextUpsertInTurn]_vars

----------------------------------------------------------------------------
(* Vocabulary of the properties *)

IsList(d) == "items" \in DOMAIN d

Gated(e) == e.sys.contentType \in GatedTypes

IsEpisode(e) == e.sys.contentType = "podcastEpisode"

HasParentRef(e) == e.fields.podcast # JsUndefined

\* the episode names a podcast that the podcasts object does not hold
Dangling(e, m) ==
  IsEpisode(e) /\ HasParentRef(e) /\ ~IsObj(Lookup(m, e.fields.podcast))

\* a gated entry on which filterEntry reaches the access decision
Decidable(e, m) ==
  Gated(e) /\ (IsEpisode(e) => HasParentRef(e) /\ IsObj(Lookup(m, e.fields.podcast)))

InAllowList(p, id) ==
  \E i \in 1..Len(getPodcasts(p)) : getPodcasts(p)[i].id = id

RestrictedParent(e, m) ==
  Truthy(Lookup(m, e.fields.podcast).fields.patronsOnly)

----------------------------------------------------------------------------
(* Properties *)

\* C1: an episode whose referenced podcast id is absent from the podcasts map
\* makes filterEntry return null for every pledge, and the items of the list
\* filterData returns never contain such an episode.
C1_DanglingEpisodeDropped ==
  /\ (pc = "filterEntry" /\ Dangling(entry, podcasts)) => filtered = ObjNull
  /\ (pc = "filterData" /\ IsList(contentfulData) /\ ~IsThrown(response)) =>
       \A i \in 1..Len(contentfulData.items) :
         Dangling(contentfulData.items[i],
                  PodcastsOf(IncludedEntries(contentfulData)))
         => \A j \in 1..Len(response.items) :
              response.items[j].sys.id # contentfulData.items[i].sys.id

C1_Witness ==
  /\ pc = "filterData"
  /\ IsList(contentfulData)
  /\ IsObj(pledge) /\ IsObj(pledge.tier)
  /\ Len(contentfulData.items) = 2
  /\ Dangling(contentfulData.items[1],
              PodcastsOf(IncludedEntries(contentfulData)))
  /\ ~IsThrown(response)
  /\ Len(response.items) = 1
  /\ response.items[1].sys.id = "e2"

\* C2: a Pledge without a tier answers false to isPatron,
\* canAccessMeditations, canAccessLiturgies and canListenAdFree, lists no
\* podcasts, denies every patrons-only podcast, and none of the calls throws.
C2_NoTierDeniesAll ==
  /\ (pc = "patron-pledge" /\ IsObj(pledge) /\ ~IsObj(pledge.tier)) =>
       /\ ~IsThrown(body)
       /\ body.isPatron = JsFalse
       /\ body.canAccessMeditations = JsFalse
       /\ body.canAccessLiturgies = JsFalse
       /\ body.canListenAdFree = JsFalse
       /\ body.podcasts = << >>
  /\ (pc = "Pledge.canAccessPodcast" /\ ~IsObj(pledge.tier)
        /\ Truthy(entry.fields.patronsOnly)) => access = JsFalse

C2_Witness ==
  /\ pc = "patron-pledge"
  /\ IsObj(pledge) /\ ~IsObj(pledge.tier)
  /\ IsObj(pledge.userData)
  /\ pledge.zoomRoomPasscode = "passcode"
  /\ body.isPatron = JsFalse

\* C3: when a gated entry is denied and its isFreePreview flag is not true,
\* the entry filterEntry returns has neither media nor mediaUrl and has
\* patronsOnly = true.
C3_DeniedEntryRedacted ==
  (/\ pc = "filterEntry"
   /\ Decidable(entry, podcasts)
   /\ ~Truthy(canAccess(pledge, entry, podcasts))
   /\ entry.fields.isFreePreview # JsTrue)
  => /\ IsObj(filtered)
     /\ filtered.fields.media = JsUndefined
     /\ filtered.fields.mediaUrl = JsUndefined
     /\ filtered.fields.patronsOnly = JsTrue

C3_Witness ==
  /\ pc = "filterEntry"
  /\ IsEpisode(entry)
  /\ entry.fields.media = "asset" /\ entry.fields.mediaUrl = "url"
  /\ entry.fields.isFreePreview = JsFalse
  /\ ~IsObj(pledge)
  /\ IsObj(filtered)
  /\ filtered.fields.media = JsUndefined
  /\ filtered.fields.patronsOnly = JsTrue

\* C4: for a patrons-only podcast a Pledge with a tier grants access, in
\* Pledge.canAccessPodcast and in canAccess on the podcast's episodes, exactly
\* when the podcast's id is in the pledge's podcast list.
C4_AllowListDecides ==
  /\ (pc = "Pledge.canAccessPodcast" /\ IsObj(pledge.tier)
        /\ Truthy(entry.fields.patronsOnly)) =>
       /\ access \in {JsTrue, JsFalse}
       /\ access = JsTrue <=> InAllowList(pledge, entry.sys.id)
  /\ (pc = "canAccess" /\ IsEpisode(entry) /\ Decidable(entry, podcasts)
        /\ IsObj(pledge) /\ IsObj(pledge.tier)
        /\ RestrictedParent(entry, podcasts)) =>
       /\ access \in {JsTrue, JsFalse}
       /\ access = JsTrue <=> InAllowList(pledge, entry.fields.podcast)

C4_Witness ==
  /\ pc = "canAccess"
  /\ IsEpisode(entry) /\ Decidable(entry, podcasts)
  /\ RestrictedParent(entry, podcasts)
  /\ IsObj(pledge) /\ IsObj(pledge.tier)
  /\ Len(getPodcasts(pledge)) = 1
  /\ ~InAllowList(pledge, entry.fields.podcast)
  /\ access = JsFalse

\* C5: an episode of a podcast that is not patrons-only is accessible to
\* every viewer: canAccess returns true, and filterEntry returns the episode
\* with patronsOnly = false and its media fields kept.
C5_PublicPodcastOpen ==
  /\ (pc = "canAccess" /\ IsEpisode(entry) /\ Decidable(entry, podcasts)
        /\ ~RestrictedParent(entry, podcasts)) => access = JsTrue
  /\ (pc = "filterEntry" /\ IsEpisode(entry) /\ Decidable(entry, podcasts)
        /\ ~RestrictedParent(entry, podcasts)) =>
       /\ IsObj(filtered)
       /\ filtered.fields.patronsOnly = JsFalse
       /\ filtered.fields.media = entry.fields.media
       /\ filtered.fields.mediaUrl = entry.fields.mediaUrl

C5_Witness ==
  /\ pc = "filterEntry"
  /\ IsEpisode(entry) /\ Decidable(entry, podcasts)
  /\ Lookup(podcasts, entry.fields.podcast).fields.patronsOnly = JsUndefined
  /\ pledge = ObjNull
  /\ entry.fields.media = "asset"
  /\ filtered.fields.patronsOnly = JsFalse
  /\ filtered.fields.media = "asset"

\* C6 as stated: for every gated entry, filterEntry called with a null pledge
\* never returns the entry with patronsOnly = false.
C6_NullPledgeNeverGranted ==
  (pc = "filterEntry" /\ ~IsObj(pledge) /\ Gated(entry) /\ IsObj(filtered))
  => filtered.fields.patronsOnly # JsFalse

\* C6 as amended: for every meditation and liturgyItem, and for every
\* podcastEpisode whose podcast is patrons-only, filterEntry called with a
\* null pledge returns the entry with patronsOnly = true.
C6_NullPledgeDeniedWhenRestricted ==
  (/\ pc = "filterEntry"
   /\ ~IsObj(pledge)
   /\ Decidable(entry, podcasts)
   /\ IsEpisode(entry) => RestrictedParent(entry, podcasts))
  => /\ IsObj(filtered)
     /\ filtered.fields.patronsOnly = JsTrue

C6_Witness ==
  /\ pc = "filterEntry"
  /\ pledge = ObjNull
  /\ IsEpisode(entry) /\ Decidable(entry, podcasts)
  /\ RestrictedParent(entry, podcasts)
  /\ entry.fields.patronsOnly = JsUndefined
  /\ filtered.fields.patronsOnly = JsTrue

\* C7: canAccess on a meditation returns true exactly when the pledge is
\* non-null and its tier's canAccessMeditations flag is true, and on a
\* liturgyItem exactly when the tier's canAccessLiturgies flag is true; with a
\* tier the answer is the tier's own flag of that kind.
C7_EntitlementFlagDecides ==
  /\ (pc = "canAccess" /\ entry.sys.contentType = "meditation") =>
       /\ access = JsTrue <=>
            (IsObj(pledge) /\ IsObj(pledge.tier)
               /\ pledge.tier.fields.canAccessMeditations = JsTrue)
       /\ (IsObj(pledge) /\ IsObj(pledge.tier)) =>
            access = pledge.tier.fields.canAccessMeditations
  /\ (pc = "canAccess" /\ entry.sys.contentType = "liturgyItem") =>
       /\ access = JsTrue <=>
            (IsObj(pledge) /\ IsObj(pledge.tier)
               /\ pledge.tier.fields.canAccessLiturgies = JsTrue)
       /\ (IsObj(pledge) /\ IsObj(pledge.tier)) =>
            access = pledge.tier.fields.canAccessLiturgies

C7_Witness ==
  /\ pc = "canAccess"
  /\ entry.sys.contentType = "liturgyItem"
  /\ IsObj(pledge) /\ IsObj(pledge.tier)
  /\ pledge.tier.fields.canAccessMeditations = JsTrue
  /\ pledge.tier.fields.canAccessLiturgies = JsFalse
  /\ access = JsFalse

\* C8: for a gated entry whose isFreePreview flag is true, the entry
\* filterEntry returns keeps the media and mediaUrl of the input whether
\* access is granted or denied, and its patronsOnly is the negation of the
\* access decision.
C8_FreePreviewKeepsMedia ==
  (/\ pc = "filterEntry"
   /\ Gated(entry)
   /\ entry.fields.isFreePreview = JsTrue
   /\ IsObj(filtered))
  => /\ filtered.fields.media = entry.fields.media
     /\ filtered.fields.mediaUrl = entry.fields.mediaUrl
     /\ filtered.fields.patronsOnly \in {JsTrue, JsFalse}
     /\ filtered.fields.patronsOnly = JsTrue <=>
          ~Truthy(canAccess(pledge, entry, podcasts))

C8_Witness ==
  /\ pc = "filterEntry"
  /\ entry.sys.contentType = "meditation"
  /\ entry.fields.isFreePreview = JsTrue
  /\ entry.fields.media = "asset" /\ entry.fields.mediaUrl = "url"
  /\ IsObj(pledge) /\ IsObj(pledge.tier)
  /\ pledge.tier.fields.canAccessMeditations = JsFalse
  /\ filtered.fields.patronsOnly = JsTrue
  /\ filtered.fields.media = "asset" /\ filtered.fields.mediaUrl = "url"

\* C9: for a gated entry whose parent resolves, filterEntry sets patronsOnly
\* to true exactly when canAccess(pledge, entry, podcasts) is not granted; a
\* granted entry is the input entry with patronsOnly = false, media intact.
C9_PatronsOnlyIsDenial ==
  (pc = "filterEntry" /\ Decidable(entry, podcasts)) =>
    /\ IsObj(filtered)
    /\ filtered.fields.patronsOnly \in {JsTrue, JsFalse}
    /\ filtered.fields.patronsOnly = JsTrue <=>
         ~Truthy(canAccess(pledge, entry, podcasts))
    /\ Truthy(canAccess(pledge, entry, podcasts)) =>
         /\ filtered.fields.media = entry.fields.media
         /\ filtered.fields.mediaUrl = entry.fields.mediaUrl
         /\ filtered.sys = entry.sys

C9_Witness ==
  /\ pc = "filterEntry"
  /\ IsEpisode(entry) /\ Decidable(entry, podcasts)
  /\ RestrictedParent(entry, podcasts)
  /\ entry.fields.patronsOnly = JsTrue
  /\ entry.fields.media = "asset"
  /\ IsObj(pledge) /\ InAllowList(pledge, entry.fields.podcast)
  /\ filtered.fields.patronsOnly = JsFalse
  /\ filtered.fields.media = "asset"

\* C10 as stated: for a singular (non-list) response filterData returns the
\* filtered entry itself and never null, for every entry kind and pledge.
C10_SingularNeverDropped ==
  (pc = "filterData" /\ ~IsList(contentfulData)) => response # ObjNull

\* C11: filterEntry is idempotent: applied again to its own non-null result
\* with the same pledge and podcasts it returns an identical entry.
C11_FilterEntryIdempotent ==
  pc = "filterEntry twice" => refiltered = filtered

C11_Witness ==
  /\ pc = "filterEntry twice"
  /\ entry.sys.contentType = "meditation"
  /\ entry.fields.isFreePreview = JsTrue
  /\ entry.fields.media = "asset"
  /\ entry.fields.patronsOnly = JsUndefined
  /\ filtered.fields.patronsOnly = JsTrue
  /\ refiltered.fields.media = "asset"
  /\ refiltered.fields.patronsOnly = JsTrue

\* the input items filterData does not drop, in input order
Survivors(d) ==
  SelectSeq(d.items,
            LAMBDA x : ~Dangling(x, PodcastsOf(IncludedEntries(d))))

\* C12: the items filterData returns for a list response are the input items
\* without the dropped ones, each exactly once and in the input order.
C12_OrderPreserved ==
  (pc = "filterData" /\ IsList(contentfulData) /\ ~IsThrown(response)) =>
    /\ Len(response.items) = Len(Survivors(contentfulData))
    /\ \A j \in 1..Len(response.items) :
         response.items[j].sys = Survivors(contentfulData)[j].sys

C12_Witness ==
  /\ pc = "filterData"
  /\ IsList(contentfulData)
  /\ ~IsThrown(response)
  /\ Len(contentfulData.items) = 2
  /\ Len(response.items) = 2
  /\ response.items[1].sys.id = "e1"
  /\ response.items[1].fields.patronsOnly = JsTrue
  /\ response.items[2].sys.id = "e2"
  /\ response.items[2].fields.patronsOnly = JsFalse

\* C13: filterEntry returns an entry of a kind other than podcastEpisode,
\* meditation and liturgyItem unchanged, for every pledge.
C13_OtherKindsUnchanged ==
  /\ (pc = "filterEntry" /\ ~Gated(entry)) => filtered = entry
  /\ (pc = "filterData" /\ ~IsList(contentfulData) /\ ~Gated(contentfulData))
       => response = contentfulData

C13_Witness ==
  /\ pc = "filterEntry"
  /\ entry.sys.contentType = "podcast"
  /\ entry.fields.patronsOnly = JsTrue
  /\ ~IsObj(pledge)
  /\ filtered = entry

----------------------------------------------------------------------------
(* Properties of the feed-level decision, on SpecFeed *)

\* C14: canAccessPatronMedia called with a kind other than meditation or
\* liturgyItem throws for every pledge, a null pledge included, and never
\* answers false.  (Violated: the null-pledge test comes first and returns
\* false for every kind.)
C14_UnknownKindThrows ==
  (pc = "canAccessPatronMedia" /\ kind \notin {"meditation", "liturgyItem"})
    => access = Error

\* C15: canAccessFeed returns the meditation entitlement on a
\* meditationCategory collection and the liturgy entitlement on a liturgy
\* collection, a null pledge being denied, and throws on neither.
\* (Violated: a liturgy collection is an unknown feed collection type.)
C15_CategoryFeedsFollowEntitlement ==
  pc = "canAccessFeed" =>
    /\ entry.sys.contentType = "meditationCategory" =>
         access = (IF IsObj(pledge) THEN canAccessMeditations(pledge) ELSE JsFalse)
    /\ entry.sys.contentType = "liturgy" =>
         access = (IF IsObj(pledge) THEN canAccessLiturgies(pledge) ELSE JsFalse)

\* C16: the feed-level decision on a podcast equals the item-level decision
\* on any episode that references it, the podcasts object holding the podcast
\* under its id.
C16_FeedMatchesEpisode ==
  pc = "canAccess episode" => itemAccess = access

C16_Witness ==
  /\ pc = "canAccess episode"
  /\ entry.sys.id = "p2"
  /\ entry.fields.patronsOnly = JsTrue
  /\ episode.fields.podcast = "p2"
  /\ IsObj(pledge) /\ IsObj(pledge.tier)
  /\ InAllowList(pledge, "p2")
  /\ access = JsTrue
  /\ itemAccess = JsTrue

----------------------------------------------------------------------------
(* Properties of the rss route, on SpecRss *)

\* C17: the entries query is issued with skip = 0, limit, 2*limit, ... until
\* the content store returns a short page, and only then is the feed sent, so
\* that no entry of a later page is omitted.  (Violated: the loop tests the
\* length of the filtered page, so it ends on a full page of which filterData
\* dropped an episode.)
C17_StopsOnlyOnShortStorePage ==
  pc = "feed" =>
    /\ pageLen < limit
    /\ \A j \in 1..Len(queries) : queries[j] = (j - 1) * limit
    /\ Len(queries) * limit > Len(store)

----------------------------------------------------------------------------
(* Properties of fetchPledge, on SpecPledge *)

\* C18: with an absent snapshot, or one without a pledge to this campaign,
\* fetchPledge returns, without throwing and without any lookup, a Pledge
\* that has no tier and denies every entitlement.
C18_NoPledgeDeniesAll ==
  (pc = "fetchPledge" /\ ~HasCampaignPledge(snapshot)) =>
    /\ ~IsThrown(pledge)
    /\ calls = << >>
    /\ ~IsObj(pledge.tier)
    /\ isPatron(pledge) = JsFalse
    /\ canAccessMeditations(pledge) = JsFalse
    /\ canAccessLiturgies(pledge) = JsFalse
    /\ canListenAdFree(pledge) = JsFalse
    /\ getPodcasts(pledge) = << >>
    /\ \A id \in PodcastIds :
         PledgeCanAccessPodcast(pledge, Podcast(id, JsTrue)) = JsFalse
    /\ pledge.zoomRoomPasscode = JsUndefined

C18_Witness ==
  /\ pc = "fetchPledge"
  /\ IsObj(snapshot)
  /\ Len(snapshot.pledges) = 1
  /\ ~HasCampaignPledge(snapshot)
  /\ zoomReply = [zoomRoomPasscode |-> "passcode"]
  /\ Len(tierReply.items) = 1
  /\ tierReply.items[1].fields.canAccessMeditations = JsTrue
  /\ pledge = Pledge(snapshot, ObjUndefined, ObjUndefined, JsUndefined)

\* C19: with a pledge to the campaign and a tier lookup that finds no tier,
\* fetchPledge does not fail and the Pledge reports a patron without
\* tier-specific entitlements.  (Violated: isPatron is !!tier, so the user
\* is reported as no patron.)
C19_EmptyLookupStillPatron ==
  (/\ pc = "fetchPledge"
   /\ HasCampaignPledge(snapshot)
   /\ ~IsThrown(zoomReply)
   /\ Len(tierReply.items) = 0) =>
    /\ ~IsThrown(pledge)
    /\ isPatron(pledge) = JsTrue
    /\ canAccessMeditations(pledge) = JsFalse
    /\ canAccessLiturgies(pledge) = JsFalse
    /\ canListenAdFree(pledge) = JsFalse
    /\ getPodcasts(pledge) = << >>

----------------------------------------------------------------------------
(* Frame of the filter, on Spec *)

GateFields == {"patronsOnly", "media", "mediaUrl"}

\* entry a has the sys metadata and every field but the gate fields of b
SameFrame(a, b) ==
  /\ DOMAIN a = DOMAIN b
  /\ a.sys = b.sys
  /\ \A k \in DOMAIN b.fields \ GateFields :
       k \in DOMAIN a.fields /\ a.fields[k] = b.fields[k]

\* C30: filterEntry changes nothing but fields.patronsOnly, fields.media and
\* fields.mediaUrl of an entry it returns, and filterData leaves every
\* top-level property of a list response other than items unchanged.
C30_OnlyGateFieldsChange ==
  /\ (pc = "filterEntry" /\ IsObj(filtered)) => SameFrame(filtered, entry)
  /\ (pc = "filterData" /\ ~IsList(contentfulData) /\ IsObj(response)) =>
       SameFrame(response, contentfulData)
  /\ (pc = "filterData" /\ IsList(contentfulData) /\ ~IsThrown(response)) =>
       /\ DOMAIN response = DOMAIN contentfulData
       /\ \A k \in DOMAIN contentfulData \ {"items"} :
            response[k] = contentfulData[k]
       /\ \A j \in 1..Len(response.items) :
            SameFrame(response.items[j], Survivors(contentfulData)[j])

C30_Witness ==
  /\ pc = "filterEntry"
  /\ IsEpisode(entry)
  /\ entry.fields.podcast = "p1"
  /\ entry.fields.isFreePreview = JsFalse
  /\ entry.fields.media = "asset"
  /\ IsObj(filtered)
  /\ filtered.fields.patronsOnly = JsTrue
  /\ filtered.fields.media = JsUndefined
  /\ filtered.fields.podcast = "p1"
  /\ filtered.fields.isFreePreview = JsFalse
  /\ filtered.fields.title = "title"

----------------------------------------------------------------------------
(* Order of the access decision and the paging, on SpecRss *)

Denied(a) == a # NotCalled /\ ~Throws(a) /\ ~Truthy(a)

Granted(a) == a # NotCalled /\ ~Throws(a) /\ Truthy(a)

\* C29: the feed-level access decision precedes every entries query: a denied
\* request is answered 401 with no entries query issued, and a 200 feed is
\* sent only after the decision was true.
C29_AccessBeforePages ==
  /\ Denied(access) => (pc = "401" /\ status = 401 /\ queries = << >>)
  /\ queries # << >> => Granted(access)
  /\ status = 200 => (pc = "feed" /\ Granted(access))

C29_Witness ==
  /\ pc = "401"
  /\ IsObj(entry)
  /\ entry.sys.contentType = "podcast"
  /\ entry.fields.patronsOnly = JsTrue
  /\ IsObj(pledge)
  /\ IsObj(pledge.tier)
  /\ ~InAllowList(pledge, entry.sys.id)
  /\ Len(store) = MaxStore
  /\ access = JsFalse
  /\ queries = << >>
  /\ feedItems = << >>

----------------------------------------------------------------------------
(* Errors of the content store, on SpecContentful *)

\* C23: when the content store answers with a status of 400 or more,
\* contentfulGet throws an error with that status and body and returns no
\* data, and the route responds with that status, never with 200 and never
\* with an entry body.
C23_StoreErrorPropagated ==
  (pc = "contentful" /\ storeStatus >= 400) =>
    /\ IsThrown(response)
    /\ response.status = storeStatus
    /\ response.json = contentfulData
    /\ status = storeStatus
    /\ status # 200
    /\ body = (IF IsObj(contentfulData) THEN contentfulData
               ELSE UnknownErrorBody)
    /\ "fields" \notin DOMAIN body
    /\ "items" \notin DOMAIN body

C23_Witness ==
  /\ pc = "contentful"
  /\ storeStatus = 404
  /\ IsObj(pledge)
  /\ isPatron(pledge) = JsTrue
  /\ IsThrown(response)
  /\ status = 404
  /\ body = ErrorBody("NotFound")

----------------------------------------------------------------------------
(* Properties of handleLiturgistsToken, on SpecToken *)

LacksTokens(m) == ~Truthy(m.patreonToken) \/ ~Truthy(m.refreshToken)

NoAccess(p) ==
  /\ IsObj(p)
  /\ isPatron(p) = JsFalse
  /\ canAccessMeditations(p) = JsFalse
  /\ canAccessLiturgies(p) = JsFalse
  /\ getPodcasts(p) = << >>

\* the handler has read the table and found no usable mapping for the token
NoUsableMapping ==
  /\ pc # "request"
  /\ liturgistsToken = "u1"
  /\ (~IsObj(tokenMappingObj) \/ LacksTokens(tokenMappingObj))

C22_FailedSnapshotIsNoPledge ==
  (pc \in {"next", "401"} /\ snapshot = ObjNull) =>
    /\ pc = "next"
    /\ nextCalled
    /\ status = 0
    /\ NoAccess(pledge)
    /\ ~IsObj(pledge.tier)

\* a step after the mapping was found has failed
StepFailed ==
  /\ IsObj(tokenMappingObj)
  /\ \/ LacksTokens(tokenMappingObj)
     \/ Count(calls, "refresh failed") > 0
     \/ Count(calls, "getPledge failed") = 2

\* C25: when a step after the mapping was found fails (tokens missing, a
\* refresh failing, pledge retrieval failing twice), the mapping is destroyed,
\* the answer is 401 with code needPatreonReauth and next() is not called;
\* when no mapping was found nothing is destroyed and the answer is 401 too.
C25_FailureDestroysMapping ==
  /\ StepFailed =>
       /\ pc = "401"
       /\ QueryByUserId(tokenStore, tokenMappingObj.userId) = {}
       /\ status = 401
       /\ body.code = ERROR_CODE_NEED_PATREON_REAUTH
       /\ ~nextCalled
  /\ (pc # "request" /\ Truthy(liturgistsToken) /\ ~IsObj(tokenMappingObj)) =>
       /\ pc = "401"
       /\ status = 401
       /\ body.code = ERROR_CODE_NEED_PATREON_REAUTH
       /\ ~nextCalled
  /\ OtherMapping \in tokenStore
  /\ ~IsObj(tokenMappingObj) => tokenStore \in {{OtherMapping}} \cup
                                   { {OtherMapping, m} : m \in StoredMappings }

C25_Witness ==
  /\ pc = "401"
  /\ IsObj(tokenMappingObj)
  /\ ~LacksTokens(tokenMappingObj)
  /\ calls = <<"getPledge", "getPledge failed", "refresh",
               "getPledge", "getPledge failed">>
  /\ tokenStore = {OtherMapping}
  /\ status = 401

\* the calls made before the first getPledge
BeforeFirstGetPledge ==
  SubSeq(calls, 1,
         (CHOOSE i \in 1..Len(calls) :
            calls[i] = "getPledge" /\ \A j \in 1..(i-1) : calls[j] # "getPledge") - 1)

\* C28: the token is refreshed before the first pledge retrieval exactly when
\* the stored token expires within one day; the retrieval is retried at most
\* once, after a failure and one further refresh; so there are at most two
\* refreshes and two retrievals before next() or the 401.
C28_BoundedRefreshAndRetry ==
  /\ Count(calls, "refresh") <= 2
  /\ Count(calls, "getPledge") <= 2
  /\ Count(calls, "getPledge") >= 1 =>
       BeforeFirstGetPledge =
         (IF tokenMappingObj.expiresAt = "soon" THEN <<"refresh">> ELSE << >>)
  /\ (pc \in {"refresh", "getPledge"} /\ calls = << >>) =>
       (pc = "refresh" <=> tokenMappingObj.expiresAt = "soon")
  /\ Count(calls, "getPledge") = 2 =>
       \E i \in 1..Len(calls) :
         SubSeq(calls, i, i + 3) =
           <<"getPledge", "getPledge failed", "refresh", "getPledge">>
  /\ (pc \notin {"next", "401"}) => (~nextCalled /\ status = 0)

C28_Witness ==
  /\ pc = "next"
  /\ IsObj(tokenMappingObj)
  /\ tokenMappingObj.expiresAt = "soon"
  /\ calls = <<"refresh", "getPledge", "getPledge failed", "refresh", "getPledge">>
  /\ nextCalled
  /\ IsObj(pledge)
  /\ isPatron(pledge) = JsTrue

----------------------------------------------------------------------------
(* Properties of upsertTokenMapping *)

Quiescent == \A c \in Callers : upsertPc[c] = "idle"

\* C26, on SpecUpsert: after any interleaving of concurrent calls for one
\* patreonUserId the table holds at most one mapping of that patreonUserId.
\* (Violated: two calls that both query before either writes both create.)
C26_AtMostOneMapping ==
  Quiescent => Cardinality(QueryByPatreonUserId(tokenStore, PatreonUserId)) <= 1

\* the item a session token resolves to
Resolves(userId) ==
  \E m \in tokenStore : m.userId = userId /\ m.patreonUserId = PatreonUserId

----------------------------------------------------------------------------
(* The sync job: syncEpisode (sync job source, lines 140-245) *)

\* the latest week of the clock
MaxWeeks == 2

\* a JavaScript object as a function from its keys: { ...a, ...b }
Spread(a, b) ==
  [k \in DOMAIN a \cup DOMAIN b |-> IF k \in DOMAIN b THEN b[k] ELSE a[k]]

\* { [key]: value }
Prop(key, value) == [k \in {key} |-> value]

withLocale(value) == Prop("en-US", value)

makeLink(e) ==
  [sys |-> [type |-> "Link", linkType |-> "Entry", id |-> e.sys.id]]

\* the podcast whose feed is synced, and its seasons by number
SyncedPodcast == [sys |-> [id |-> "p1"]]
seasons == Prop("1", [sys |-> [id |-> "season1"]])

\* cache.getOrCreate(contentType, value): the tag or contributor entry of
\* that name
getOrCreate(contentType, value) ==
  [sys |-> [id |-> contentType \o ":" \o value]]

\* label.replace(/s$/, '')
Singular(label) ==
  CASE label = "tags" -> "tag"
    [] label = "contributors" -> "contributor"

\* the descriptions of the feed items, and for each the matches of
\* /(contributors|tags):([^,]+(?:,[^,]+)*);/ on its lines, in order, as
\* <<label, valuesCsv.split(',')>>
PlainDescription == "notes"
LabelledDescription == "notes\ncontributors:mike;\ntags:faith,doubt;"
Descriptions == {PlainDescription, LabelledDescription}

LineMatches(description) ==
  CASE description = PlainDescription -> << >>
    [] description = LabelledDescription ->
         << <<"contributors", <<"mike">> >>, <<"tags", <<"faith", "doubt">> >> >>

\* a duration string, held as its parts between the ':' (duration.split(':'))
Durations == { <<"5", "00">>, <<"1", "05", "00">> }

\* Array(3 - nums.length).fill('0').concat(nums)
fixDuration(duration) ==
  [i \in 1..(3 - Len(duration)) |-> "0"] \o duration

\* parseInt(s, 10) of the episode numbers of the feed
parseInt(s) ==
  CASE s = "1" -> 1
    [] s = "2" -> 2

\* the keys of a feed item that rss-parser sets only when the feed has them
\* (lodash paths, kept as keys); a feed numbers its episodes when it has
\* seasons, and every item of the feed has its enclosure
OptionalPaths == {{"itunes.image"}, {"itunes.duration"},
                  {"itunes.episode", "itunes.season"}}

\* the week the episode of the guid was published in the feed
PublishedInFeed == 0

\* the feed items of one guid that the feed can hold
RssItems ==
  { [k \in {"guid", "title", "description", "isoDate", "enclosure.url"}
            \cup UNION paths |->
       CASE k = "guid" -> "g1"
         [] k = "title" -> title
         [] k = "description" -> description
         [] k = "isoDate" -> isoDate
         [] k = "itunes.image" -> "image.jpg"
         [] k = "enclosure.url" -> "episode.mp3"
         [] k = "itunes.duration" -> duration
         [] k = "itunes.episode" -> "1"
         [] k = "itunes.season" -> "1"] :
      title \in {"t1", "t2"}, description \in Descriptions,
      isoDate \in {PublishedInFeed}, duration \in Durations,
      paths \in SUBSET OptionalPaths }

\* lines 170-186: the links of the values of the labelled lines
RECURSIVE Links(_, _)
Links(contentType, values) ==
  IF values = << >> THEN << >>
  ELSE <<makeLink(getOrCreate(contentType, Head(values)))>>
         \o Links(contentType, Tail(values))

RECURSIVE SetLabels(_, _)
SetLabels(fields, matches) ==
  IF matches = << >> THEN fields
  ELSE LET label == Head(matches)[1]
           values == Head(matches)[2]
       IN SetLabels(Spread(fields,
                           Prop(label,
                                withLocale(Links(Singular(label), values)))),
                    Tail(matches))

\* lines 188-193: setIfPresent
setIfPresent(fields, key, path, rssItem) ==
  IF path \in DOMAIN rssItem
    THEN Spread(fields, Prop(key, withLocale(rssItem[path])))
    ELSE fields

\* lines 159-211: episodeJson.fields, or the TypeError of line 197 when the
\* item has no itunes.duration
episodeJson(rssItem) ==
  LET first == [podbeanEpisodeId |-> withLocale(rssItem["guid"]),
                title |-> withLocale(rssItem["title"]),
                description |-> withLocale(rssItem["description"]),
                publishedAt |-> withLocale(rssItem["isoDate"]),
                podcast |-> withLocale(makeLink(SyncedPodcast))]
      labelled == SetLabels(first, LineMatches(rssItem["description"]))
      image == setIfPresent(labelled, "imageUrl", "itunes.image", rssItem)
      media == setIfPresent(image, "mediaUrl", "enclosure.url", rssItem)
      timed == setIfPresent(media, "duration", "itunes.duration", rssItem)
      fixed == Spread(timed,
                      Prop("duration",
                           withLocale(fixDuration(timed["duration"]["en-US"]))))
      numbered ==
        IF "itunes.episode" \in DOMAIN rssItem
          THEN Spread(fixed,
                      Prop("seasonEpisodeNumber",
                           withLocale(parseInt(rssItem["itunes.episode"]))))
          ELSE fixed
      inSeason ==
        IF /\ "itunes.season" \in DOMAIN rssItem
           /\ rssItem["itunes.season"] \in DOMAIN seasons
          THEN Spread(numbered,
                      Prop("season",
                           withLocale(makeLink(seasons[rssItem["itunes.season"]]))))
          ELSE numbered
  IN IF "duration" \notin DOMAIN timed
       THEN Thrown("TypeError")
       ELSE [fields |-> inSeason]

\* lines 225-229: { ...existingEpisode.fields, ...episodeJson.fields }
newFields_FeedOnly(existingFields, feedFields) == feedFields

newFields(existingFields, feedFields) == Spread(existingFields, feedFields)

\* moment().diff(publishedAt) > oneWeekInMillis, in weeks
OlderThanOneWeek(week, publishedAt) == week - publishedAt > 1

\* syncEpisode: the episode of the content store afterwards and the status
\* returned, or the exception thrown
syncEpisode(week, existingEpisode, rssItem) ==
  LET json == episodeJson(rssItem) IN
  IF IsThrown(json)
    THEN [episode |-> existingEpisode, status |-> json.error]
  ELSE IF ~IsObj(existingEpisode)
    THEN [episode |-> json, status |-> "created"]
  ELSE LET merged == newFields(existingEpisode.fields, json.fields) IN
       IF /\ existingEpisode.fields # merged
          /\ ~OlderThanOneWeek(week,
                               existingEpisode.fields["publishedAt"]["en-US"])
         THEN [episode |-> [fields |-> merged], status |-> "updated"]
         ELSE [episode |-> existingEpisode, status |-> "unchanged"]

\* fields an editor set on the episode in the content store
EditorFields ==
  [patronsOnly |-> withLocale(JsTrue),
   tags |-> withLocale(<<makeLink(getOrCreate("tag", "grace"))>>)]

\* the content store holds no episode of the guid, or one that an earlier
\* sync created and an editor has added fields to
InitSync ==
  /\ pc = "sync"
  /\ NoRequest
  /\ tokenStore = {}
  /\ NoUpsert
  /\ contentfulEpisode \in
       {ObjUndefined} \cup
       { [fields |-> Spread(syncEpisode(0, ObjUndefined, i).episode.fields,
                            EditorFields)] :
           i \in { j \in RssItems :
                     /\ DOMAIN j = {"guid", "title", "description", "isoDate",
                                    "enclosure.url", "itunes.duration"}
                     /\ j["title"] = "t1"
                     /\ j["description"] = PlainDescription
                     /\ j["itunes.duration"] = <<"5", "00">> } }
  /\ syncedItem = ObjUndefined
  /\ syncStatus = JsUndefined
  /\ now = 0

\* syncPodcast, lines 296-303: syncEpisode of the feed item of the guid
SyncEpisode ==
  /\ \E rssItem \in RssItems :
       LET r == syncEpisode(now, contentfulEpisode, rssItem) IN
         /\ contentfulEpisode' = r.episode
         /\ syncStatus' = r.status
         /\ syncedItem' = rssItem
  /\ UNCHANGED <<pc, pledge, entry, podcasts, contentfulData, access, filtered,
                 response, body, callVars, pledgeVars, rssVars, storeStatus,
                 tokenVars, upsertVars, now>>

\* a week passes between two runs of the sync job
Tick ==
  /\ now < MaxWeeks
  /\ now' = now + 1
  /\ UNCHANGED <<pc, pledge, entry, podcasts, contentfulData, access, filtered,
                 response, body, callVars, pledgeVars, rssVars, storeStatus,
                 tokenVars, upsertVars, contentfulEpisode, syncedItem,
                 syncStatus>>

NextSync == SyncEpisode \/ Tick

SpecSync == InitSync /\ [][NextSync]_vars

\* the fields a feed item sets on the episode (none before the first sync)
SetByFeed(rssItem) ==
  IF ~IsObj(rssItem) THEN {} ELSE
  {"podbeanEpisodeId", "title", "description", "publishedAt", "podcast"}
  \cup (IF rssItem["description"] = LabelledDescription
          THEN {"contributors", "tags"} ELSE {})
  \cup (IF "itunes.image" \in DOMAIN rssItem THEN {"imageUrl"} ELSE {})
  \cup (IF "enclosure.url" \in DOMAIN rssItem THEN {"mediaUrl"} ELSE {})
  \cup (IF "itunes.duration" \in DOMAIN rssItem THEN {"duration"} ELSE {})
  \cup (IF "itunes.episode" \in DOMAIN rssItem
          THEN {"seasonEpisodeNumber"} ELSE {})
  \cup (IF "itunes.season" \in DOMAIN rssItem THEN {"season"} ELSE {})

\* C24, on SpecSync: syncing an existing episode never removes a field. In
\* every step, an episode that the content store held stays an episode, every
\* field it had is still present afterwards, and a field the feed item of the
\* sync does not set keeps its stored value; as this holds of every step it
\* holds after any sequence of syncs.
C24_FieldsNeverRemoved ==
  [][IsObj(contentfulEpisode) =>
       /\ IsObj(contentfulEpisode')
       /\ \A k \in DOMAIN contentfulEpisode.fields :
            /\ k \in DOMAIN contentfulEpisode'.fields
            /\ (k \notin SetByFeed(syncedItem')
                  => contentfulEpisode'.fields[k] = contentfulEpisode.fields[k])
    ]_syncVars

\* an update by an item without image and without labelled lines has kept
\* the image of an earlier sync, the editor's tags and patronsOnly
C24_Witness ==
  /\ syncStatus = "updated"
  /\ IsObj(contentfulEpisode)
  /\ "itunes.image" \notin DOMAIN syncedItem
  /\ syncedItem["description"] = PlainDescription
  /\ syncedItem["title"] = "t2"
  /\ contentfulEpisode.fields["title"] = withLocale("t2")
  /\ "imageUrl" \in DOMAIN contentfulEpisode.fields
  /\ "patronsOnly" \in DOMAIN contentfulEpisode.fields
  /\ "tags" \in DOMAIN contentfulEpisode.fields
  /\ contentfulEpisode.fields["tags"] = EditorFields.tags

====
